---- MODULE Spec2Model ----
(***************************************************************************)
(* Page operations of papermerge-core (papermerge/core/views/pages.py):    *)
(* single and bulk page delete, reorder, rotate, move to folder and move   *)
(* to document.  Every operation appends a new document version instead of *)
(* changing an existing one.                                               *)
(*                                                                         *)
(* A store is a record [docs, next_pk].  docs is the sequence of Document  *)
(* rows; a document holds its folder and the sequence of its versions, in  *)
(* creation order.  A version holds page_count, its Page rows in number    *)
(* order (pages[i] is the row with number i), the PDF file of the version  *)
(* (has_file, payload), the aggregate text and the per-page artifact       *)
(* slots written by the storage's copy_page.  last and prev describe the   *)
(* last two requests served and their outcome; nops counts the requests.   *)
(* inflight holds the requests that are served step by step, concurrently, *)
(* each with what it has read so far and the step it is at.                *)
(***************************************************************************)
EXTENDS Integers, Sequences, FiniteSets, TLC

VARIABLES docs, next_pk, last, prev, nops, inflight

vars == <<docs, next_pk, last, prev, nops, inflight>>

\* Number of requests served in one behaviour.
MaxOps == 2

\* Number of requests served concurrently in one behaviour.
MaxRacers == 2

\* Number of requests served in one behaviour of delete requests only.
MaxDeletes == 3

\* Longest task name and longest event type of the enumerated task dicts.
MaxNameLen == 4

MaxTypeLen == 2

\* Calls of Task.update on a task before it is handed on.
MaxUpdates == 1

\* Calls of dict2channel_data on one dict.
MaxCalls == 2

\* Number of requests served in one behaviour of the requests of two users.
MaxUserOps == 2

\* Number of page retrievals in one behaviour.
MaxRetrieves == 1

\* Number of requests served statement group by statement group in one
\* behaviour.
MaxStarted == 2

\* Pages of the largest document uploaded in the behaviours of SpecPages,
\* and number of requests served in one of them.
MaxPages == 5

MaxPageDeletes == 2

---------------------------------------------------------------------------
(* Generic helpers *)

Range(s) == {s[i] : i \in DOMAIN s}

Min(S) == CHOOSE x \in S : \A y \in S : x <= y

MinOf(a, b) == IF a <= b THEN a ELSE b

RECURSIVE SortedSeq(_)
\* The elements of a finite set of integers, ascending.
SortedSeq(S) ==
    IF S = {} THEN <<>> ELSE <<Min(S)>> \o SortedSeq(S \ {Min(S)})

RECURSIVE Join(_)
\* ' '.join(texts)
Join(texts) ==
    IF texts = <<>> THEN ""
    ELSE IF Len(texts) = 1 THEN texts[1]
    ELSE texts[1] \o " " \o Join(Tail(texts))

---------------------------------------------------------------------------
(* Rows and look-ups *)

Store == [docs |-> docs, next_pk |-> next_pk]

\* A version is named by <<document, index in the document's versions>>.
Version(st, vr) == st.docs[vr[1]].versions[vr[2]]

\* document.versions.last()
LastVersion(st, d) == <<d, Len(st.docs[d].versions)>>

\* Every Page row, as [d, v, number].
PageRefs(st) ==
    UNION { UNION { { [d |-> d, v |-> v, number |-> n] :
                        n \in DOMAIN st.docs[d].versions[v].pages } :
                    v \in DOMAIN st.docs[d].versions } :
            d \in DOMAIN st.docs }

Pk(st, r) == st.docs[r.d].versions[r.v].pages[r.number].pk

AllPks(st) == {Pk(st, r) : r \in PageRefs(st)}

document_version(r) == <<r.d, r.v>>

RECURSIVE OrderedByNumber(_)
\* Every listing of the rows R in ascending page number; rows with the same
\* number (they belong to different versions) come in either order.
OrderedByNumber(R) ==
    IF R = {} THEN {<<>>}
    ELSE LET m == Min({r.number : r \in R})
         IN  UNION { { <<r>> \o s : s \in OrderedByNumber(R \ {r}) } :
                     r \in {x \in R : x.number = m} }

\* Page.objects.filter(pk__in=ids): the listings the query may return.
filter_pages(st, ids) ==
    OrderedByNumber({r \in PageRefs(st) : Pk(st, r) \in ids})

\* Page.is_archived: the page's version is not the document's last version.
is_archived(st, r) == document_version(r) # LastVersion(st, r.d)

---------------------------------------------------------------------------
(* Version Manager *)

\* Document.version_bump(page_count): a new last version with page_count
\* placeholder pages numbered 1..page_count, no file yet, no text.
version_bump(st, d, page_count) ==
    LET new == [ page_count |-> page_count,
                 pages      |-> [i \in 1..page_count |->
                                   [pk |-> st.next_pk + i - 1, text |-> ""]],
                 has_file   |-> FALSE,
                 payload    |-> <<>>,
                 text       |-> "",
                 artifacts  |-> <<>> ]
    IN  [ docs    |-> [st.docs EXCEPT ![d].versions = Append(@, new)],
          next_pk |-> st.next_pk + (IF page_count > 0 THEN page_count ELSE 0) ]

---------------------------------------------------------------------------
(* PDF Page Editor *)

\* pikepdf: pdf.pages.remove(p=p) on a list of pages, p is 1-based.
pages_remove(pdf, p) ==
    [i \in 1..(Len(pdf) - 1) |-> IF i < p THEN pdf[i] ELSE pdf[i + 1]]

RECURSIVE remove_loop(_, _, _)
\* The loop of remove_pdf_pages; pikepdf raises IndexError for a page that
\* is not there.
remove_loop(pdf, numbers, deleted_count) ==
    IF numbers = <<>> THEN [ok |-> TRUE, pdf |-> pdf]
    ELSE LET p == Head(numbers) - deleted_count
         IN  IF p < 1 \/ p > Len(pdf)
             THEN [ok |-> FALSE, pdf |-> pdf]
             ELSE remove_loop(pages_remove(pdf, p), Tail(numbers),
                              deleted_count + 1)

\* Write the file of version vr.
save_pdf(st, vr, pdf) ==
    [st EXCEPT !.docs[vr[1]].versions[vr[2]].has_file = TRUE,
               !.docs[vr[1]].versions[vr[2]].payload = pdf]

remove_pdf_pages(st, old_version, new_version, pages_to_delete) ==
    IF ~Version(st, old_version).has_file
    THEN [ok |-> FALSE, st |-> st]
    ELSE LET r == remove_loop(Version(st, old_version).payload,
                              [i \in DOMAIN pages_to_delete |->
                                  pages_to_delete[i].number], 0)
         IN  IF r.ok
             THEN [ok |-> TRUE, st |-> save_pdf(st, new_version, r.pdf)]
             ELSE [ok |-> FALSE, st |-> st]

---------------------------------------------------------------------------
(* Page Map Builder *)

\* get_assigns_after_delete: the survivors in ascending order, renumbered
\* from 1, as <<new_number, old_number>> pairs.
get_assigns_after_delete(total_pages, deleted_pages) ==
    LET survivors == SortedSeq((1..total_pages) \ Range(deleted_pages))
    IN  [i \in DOMAIN survivors |-> <<i, survivors[i]>>]

---------------------------------------------------------------------------
(* Side-Data Replicator *)

\* storage.copy_page(src=src_page.page_path, dst=dst_page.page_path): the
\* artifact the source slot holds in the storage at the time of the call is
\* written to the destination slot; a source slot that holds nothing copies
\* nothing.
copy_page(st, src_page, dst_page) ==
    LET src == Version(st, document_version(src_page)).artifacts
    IN  IF src_page.number \in DOMAIN src
        THEN [st EXCEPT !.docs[dst_page.d].versions[dst_page.v].artifacts =
                 [k \in DOMAIN @ \cup {dst_page.number} |->
                     IF k = dst_page.number THEN src[src_page.number]
                     ELSE @[k]]]
        ELSE st

\* Page number of a version, as the storage addresses it.
PageOf(version, number) ==
    [d |-> version[1], v |-> version[2], number |-> number]

RECURSIVE copy_loop(_, _, _, _)
\* storage.copy_page for each <<source number, destination number>> pair, in
\* order, on the storage as the pairs before left it.
copy_loop(st, old_version, new_version, pairs) ==
    IF pairs = <<>> THEN st
    ELSE copy_loop(copy_page(st, PageOf(old_version, Head(pairs)[1]),
                             PageOf(new_version, Head(pairs)[2])),
                   old_version, new_version, Tail(pairs))

\* reuse_ocr_data taking every pair of the map as (old_number, new_number).
reuse_ocr_data_pairs_swapped(st, old_version, new_version, page_map) ==
    copy_loop(st, old_version, new_version, page_map)

\* reuse_ocr_data(old_version, new_version, page_map): the pairs are
\* <<new_number, old_number>>.
reuse_ocr_data(st, old_version, new_version, page_map) ==
    copy_loop(st, old_version, new_version,
              [i \in DOMAIN page_map |-> <<page_map[i][2], page_map[i][1]>>])

\* collect_text_streams: KeyError for a number the version has no page for.
collect_text_streams(version, page_numbers) ==
    IF \A i \in DOMAIN page_numbers : page_numbers[i] \in DOMAIN version.pages
    THEN [ok |-> TRUE,
          streams |-> [i \in DOMAIN page_numbers |->
                          version.pages[page_numbers[i]].text]]
    ELSE [ok |-> FALSE, streams |-> <<>>]

\* DocumentVersion.update_text_field(streams): the i-th page takes the i-th
\* stream; the version's text is the page texts joined by one space.
update_text_field(version, streams) ==
    LET k == MinOf(Len(version.pages), Len(streams))
    IN  [version EXCEPT
            !.pages = [i \in DOMAIN version.pages |->
                          IF i <= k THEN [@[i] EXCEPT !.text = streams[i]]
                          ELSE @[i]],
            !.text = Join(SubSeq(streams, 1, k))]

\* reuse_text_field reading the texts at the new numbers of the map instead
\* of the old ones.
reuse_text_field_by_new_number(st, old_version, new_version, page_map) ==
    LET c == collect_text_streams(Version(st, old_version),
                                  [i \in DOMAIN page_map |-> page_map[i][1]])
    IN  IF c.ok
        THEN [ok |-> TRUE,
              st |-> [st EXCEPT
                        !.docs[new_version[1]].versions[new_version[2]] =
                            update_text_field(@, c.streams)]]
        ELSE [ok |-> FALSE, st |-> st]

reuse_text_field(st, old_version, new_version, page_map) ==
    LET c == collect_text_streams(Version(st, old_version),
                                  [i \in DOMAIN page_map |-> page_map[i][2]])
    IN  IF c.ok
        THEN [ok |-> TRUE,
              st |-> [st EXCEPT
                        !.docs[new_version[1]].versions[new_version[2]] =
                            update_text_field(@, c.streams)]]
        ELSE [ok |-> FALSE, st |-> st]

---------------------------------------------------------------------------
(* Outcomes of a request *)

Ok(st) == [st |-> st, status |-> "ok", detail |-> ""]

\* APIBadRequest(detail): HTTP 400.
BadRequest(st, detail) == [st |-> st, status |-> "bad_request", detail |-> detail]

\* An exception no handler catches: the request fails, what was written
\* before stays written.
Crash(st) == [st |-> st, status |-> "crash", detail |-> ""]

ArchivedMsg == "Deleting archived page is not allowed"

AtLeastOneMsg == "Document version must have at least one page"

\* delete_page_map taking the page count the new version will have as the
\* total.
delete_page_map_of_new_count(st, old_version, pages) ==
    get_assigns_after_delete(
        Version(st, old_version).page_count - Len(pages),
        [i \in DOMAIN pages |-> pages[i].number])

\* page_map = get_assigns_after_delete(total_pages=old_version.page_count,
\* deleted_pages=[item.number for item in pages_to_delete])
delete_page_map(st, old_version, pages) ==
    get_assigns_after_delete(
        Version(st, old_version).page_count,
        [i \in DOMAIN pages |-> pages[i].number])

\* The steps every handler runs after the bump of the source document:
\* remove_pdf_pages, get_assigns_after_delete, reuse_ocr_data,
\* reuse_text_field.
remove_and_reuse(st, old_version, new_version, pages) ==
    LET r1 == remove_pdf_pages(st, old_version, new_version, pages)
        page_map == delete_page_map(st, old_version, pages)
        st2 == reuse_ocr_data(r1.st, old_version, new_version, page_map)
    IN  IF ~r1.ok THEN [ok |-> FALSE, st |-> r1.st]
        ELSE reuse_text_field(st2, old_version, new_version, page_map)

---------------------------------------------------------------------------
(* Delete *)

\* PageView.perform_destroy(instance)
perform_destroy(st, instance) ==
    IF is_archived(st, instance) THEN BadRequest(st, ArchivedMsg)
    ELSE LET old_version == document_version(instance)
             doc == instance.d
             st1 == version_bump(st, doc,
                        Version(st, old_version).page_count - 1)
             new_version == LastVersion(st1, doc)
             r == remove_and_reuse(st1, old_version, new_version, <<instance>>)
         IN  IF r.ok THEN Ok(r.st) ELSE Crash(r.st)

\* delete_pages testing only the first page for being archived.
delete_pages_first_page_only(st, pages_to_delete) ==
    IF pages_to_delete = <<>> THEN Crash(st)
    ELSE IF is_archived(st, pages_to_delete[1]) THEN BadRequest(st, ArchivedMsg)
    ELSE LET old_version == document_version(pages_to_delete[1])
             count == Len(Version(st, old_version).pages)
             doc == old_version[1]
             st1 == version_bump(st, doc,
                        Version(st, old_version).page_count
                            - Len(pages_to_delete))
             new_version == LastVersion(st1, doc)
             r == remove_and_reuse(st1, old_version, new_version,
                                   pages_to_delete)
         IN  IF count <= Len(pages_to_delete)
             THEN BadRequest(st, AtLeastOneMsg)
             ELSE IF r.ok THEN Ok(r.st) ELSE Crash(r.st)

\* delete_pages refusing only a request that names more pages than the
\* version has.
delete_pages_strict_count(st, pages_to_delete) ==
    IF \E i \in DOMAIN pages_to_delete : is_archived(st, pages_to_delete[i])
    THEN BadRequest(st, ArchivedMsg)
    ELSE IF pages_to_delete = <<>> THEN Crash(st)
    ELSE LET old_version == document_version(pages_to_delete[1])
             count == Len(Version(st, old_version).pages)
             doc == old_version[1]
             st1 == version_bump(st, doc,
                        Version(st, old_version).page_count
                            - Len(pages_to_delete))
             new_version == LastVersion(st1, doc)
             r == remove_and_reuse(st1, old_version, new_version,
                                   pages_to_delete)
         IN  IF count < Len(pages_to_delete)
             THEN BadRequest(st, AtLeastOneMsg)
             ELSE IF r.ok THEN Ok(r.st) ELSE Crash(r.st)

\* delete_pages up to its bump: the listing is tested for archived pages
\* and for the number of pages the version keeps.
delete_pages_validate(st, pages_to_delete) ==
    IF \E i \in DOMAIN pages_to_delete : is_archived(st, pages_to_delete[i])
    THEN BadRequest(st, ArchivedMsg)
    ELSE IF pages_to_delete = <<>> THEN Crash(st)
    ELSE IF Len(Version(st, document_version(pages_to_delete[1])).pages)
               <= Len(pages_to_delete)
         THEN BadRequest(st, AtLeastOneMsg)
         ELSE Ok(st)

\* new_version = doc.version_bump(page_count=old_version.page_count -
\* pages_to_delete.count())
delete_pages_bump(st, old_version, pages_to_delete) ==
    version_bump(st, old_version[1],
                 Version(st, old_version).page_count - Len(pages_to_delete))

\* delete_pages after its bump: the file, the artifacts and the texts of
\* the version the bump returned.
delete_pages_write(st, old_version, new_version, pages_to_delete) ==
    LET r == remove_and_reuse(st, old_version, new_version, pages_to_delete)
    IN  IF r.ok THEN Ok(r.st) ELSE Crash(r.st)

\* PagesView.delete_pages(page_ids); pages_to_delete is the listing the
\* query returned.
delete_pages(st, pages_to_delete) ==
    LET validated == delete_pages_validate(st, pages_to_delete)
        old_version == document_version(pages_to_delete[1])
        st1 == delete_pages_bump(st, old_version, pages_to_delete)
    IN  IF validated.status # "ok" THEN validated
        ELSE delete_pages_write(st1, old_version,
                                LastVersion(st1, old_version[1]),
                                pages_to_delete)

---------------------------------------------------------------------------
(* Reorder *)

RECURSIVE insert_sorted(_, _)
\* Insert item after every element whose new_number is not larger.
insert_sorted(sorted, item) ==
    IF sorted = <<>> THEN <<item>>
    ELSE IF Head(sorted).new_number <= item.new_number
         THEN <<Head(sorted)>> \o insert_sorted(Tail(sorted), item)
         ELSE <<item>> \o sorted

RECURSIVE sorted_by_new_number(_)
\* sorted(pages_data, key=lambda item: item['new_number']); the sort is
\* stable.
sorted_by_new_number(pages_data) ==
    IF pages_data = <<>> THEN <<>>
    ELSE insert_sorted(
            sorted_by_new_number(SubSeq(pages_data, 1, Len(pages_data) - 1)),
            pages_data[Len(pages_data)])

\* reorder_pdf_pages taking the pages in descending new_number.
reorder_pdf_pages_descending(st, old_version, new_version, pages_data) ==
    LET src == Version(st, old_version).payload
        ascending == sorted_by_new_number(pages_data)
        reodered_list == [i \in DOMAIN ascending |->
                             ascending[Len(ascending) + 1 - i]]
    IN  IF ~Version(st, old_version).has_file
           \/ \E i \in DOMAIN reodered_list :
                 reodered_list[i].old_number \notin DOMAIN src
        THEN [ok |-> FALSE, st |-> st]
        ELSE [ok |-> TRUE,
              st |-> save_pdf(st, new_version,
                        [i \in DOMAIN reodered_list |->
                            src[reodered_list[i].old_number]])]

\* reorder_pdf_pages taking, for every item, the page at new_number.
reorder_pdf_pages_by_new_number(st, old_version, new_version, pages_data) ==
    LET src == Version(st, old_version).payload
        reodered_list == sorted_by_new_number(pages_data)
    IN  IF ~Version(st, old_version).has_file
           \/ \E i \in DOMAIN reodered_list :
                 reodered_list[i].new_number \notin DOMAIN src
        THEN [ok |-> FALSE, st |-> st]
        ELSE [ok |-> TRUE,
              st |-> save_pdf(st, new_version,
                        [i \in DOMAIN reodered_list |->
                            src[reodered_list[i].new_number]])]

reorder_pdf_pages(st, old_version, new_version, pages_data) ==
    LET src == Version(st, old_version).payload
        reodered_list == sorted_by_new_number(pages_data)
    IN  IF ~Version(st, old_version).has_file
           \/ \E i \in DOMAIN reodered_list :
                 reodered_list[i].old_number \notin DOMAIN src
        THEN [ok |-> FALSE, st |-> st]
        ELSE [ok |-> TRUE,
              st |-> save_pdf(st, new_version,
                        [i \in DOMAIN reodered_list |->
                            src[reodered_list[i].old_number]])]

\* get_reordered_list(pages_data, page_count): the old number of the page at
\* every new position 1..page_count.  The assignments must give every page
\* one new number and use every number of 1..page_count once; anything else
\* is rejected as invalid.
get_reordered_list(pages_data, page_count) ==
    LET olds == [i \in DOMAIN pages_data |-> pages_data[i].old_number]
        news == [i \in DOMAIN pages_data |-> pages_data[i].new_number]
        valid == /\ Len(pages_data) = page_count
                 /\ Range(olds) = 1..page_count
                 /\ Range(news) = 1..page_count
    IN  IF valid
        THEN [ok |-> TRUE,
              list |-> [n \in 1..page_count |->
                          pages_data[CHOOSE i \in DOMAIN pages_data :
                                        pages_data[i].new_number = n].old_number]]
        ELSE [ok |-> FALSE, list |-> <<>>]

InvalidMsg == "invalid reorder assignment"

\* The request is refused as invalid; what was written before stays written.
InvalidRequest(st) == [st |-> st, status |-> "invalid_request", detail |-> InvalidMsg]

\* reorder_pages_write without the call of reuse_ocr_data: the texts alone
\* are carried into the new version.
reorder_pages_write_text_only(st, old_version, new_version, pages_data) ==
    LET page_count == Len(Version(st, old_version).pages)
        r2 == reorder_pdf_pages(st, old_version, new_version, pages_data)
        reordered_list == get_reordered_list(pages_data, page_count)
        page_map == [i \in 1..MinOf(page_count, Len(reordered_list.list)) |->
                        <<i, reordered_list.list[i]>>]
        r4 == reuse_text_field(r2.st, old_version, new_version, page_map)
    IN  IF ~r2.ok THEN Crash(r2.st)
        ELSE IF ~reordered_list.ok THEN InvalidRequest(r2.st)
        ELSE IF ~r4.ok THEN Crash(r2.st)
        ELSE Ok(r4.st)

\* reorder_pages after its bump: the file, the artifacts and the texts of
\* the version the bump returned.
reorder_pages_write(st, old_version, new_version, pages_data) ==
    LET page_count == Len(Version(st, old_version).pages)
        r2 == reorder_pdf_pages(st, old_version, new_version, pages_data)
        reordered_list == get_reordered_list(pages_data, page_count)
        page_map == [i \in 1..MinOf(page_count, Len(reordered_list.list)) |->
                        <<i, reordered_list.list[i]>>]
        st3 == reuse_ocr_data(r2.st, old_version, new_version, page_map)
        r4 == reuse_text_field(st3, old_version, new_version, page_map)
    IN  IF ~r2.ok THEN Crash(r2.st)
        ELSE IF ~reordered_list.ok THEN InvalidRequest(r2.st)
        ELSE IF ~r4.ok THEN Crash(st3)
        ELSE Ok(r4.st)

\* new_version = doc.version_bump(page_count=old_version.page_count)
reorder_pages_bump(st, old_version) ==
    version_bump(st, old_version[1], Version(st, old_version).page_count)

\* PagesReorderView.reorder_pages(pages_data); pages is the listing the
\* query for the ids of pages_data returned.
reorder_pages(st, pages, pages_data) ==
    IF pages = <<>> THEN Crash(st)
    ELSE LET old_version == document_version(pages[1])
             st1 == reorder_pages_bump(st, old_version)
         IN  reorder_pages_write(st1, old_version,
                                 LastVersion(st1, old_version[1]), pages_data)

---------------------------------------------------------------------------
(* Rotate *)

\* Document.version_bump() without a page count: as many pages as the
\* document's last version.
version_bump_same(st, d) ==
    version_bump(st, d, Version(st, LastVersion(st, d)).page_count)

\* annotate_page_data(pages, pages_data, 'angle'): for every page of the
\* listing that pages_data names, its number and the angle given for it.
annotate_page_data(st, pages, pages_data) ==
    LET named == SelectSeq(pages,
                    LAMBDA r : \E i \in DOMAIN pages_data :
                                  pages_data[i].id = Pk(st, r))
    IN  [k \in DOMAIN named |->
            [number |-> named[k].number,
             angle  |-> pages_data[CHOOSE i \in DOMAIN pages_data :
                            /\ pages_data[i].id = Pk(st, named[k])
                            /\ \A j \in 1..(i - 1) :
                                  pages_data[j].id # Pk(st, named[k])].angle]]

RECURSIVE rotate_loop(_, _)
\* page.rotate(angle, relative=True) for every entry, in order.
rotate_loop(pdf, pages_data) ==
    IF pages_data = <<>> THEN pdf
    ELSE rotate_loop(
            [pdf EXCEPT ![Head(pages_data).number].angle =
                (@ + Head(pages_data).angle) % 360],
            Tail(pages_data))

\* rotate_pdf_pages saving the rotated file over the file of the old version
\* as well.
rotate_pdf_pages_in_place(st, old_version, new_version, pages_data) ==
    LET src == Version(st, old_version).payload
    IN  IF ~Version(st, old_version).has_file
           \/ \E i \in DOMAIN pages_data :
                 \/ pages_data[i].number \notin DOMAIN src
                 \/ pages_data[i].angle % 90 # 0
        THEN [ok |-> FALSE, st |-> st]
        ELSE [ok |-> TRUE,
              st |-> save_pdf(save_pdf(st, old_version,
                                       rotate_loop(src, pages_data)),
                              new_version, rotate_loop(src, pages_data))]

rotate_pdf_pages(st, old_version, new_version, pages_data) ==
    LET src == Version(st, old_version).payload
    IN  IF ~Version(st, old_version).has_file
           \/ \E i \in DOMAIN pages_data :
                 \/ pages_data[i].number \notin DOMAIN src
                 \/ pages_data[i].angle % 90 # 0
        THEN [ok |-> FALSE, st |-> st]
        ELSE [ok |-> TRUE,
              st |-> save_pdf(st, new_version, rotate_loop(src, pages_data))]

\* rotate_pages copying the artifacts of the old version as well, by the
\* same one-to-one map as the texts.
rotate_pages_reusing_ocr_data(st, pages, pages_data) ==
    IF pages = <<>> THEN Crash(st)
    ELSE LET old_version == document_version(pages[1])
             doc == old_version[1]
             st1 == version_bump_same(st, doc)
             new_version == LastVersion(st1, doc)
             r2 == rotate_pdf_pages(st1, old_version, new_version,
                        annotate_page_data(st, pages, pages_data))
             page_map == [i \in DOMAIN Version(st, old_version).pages |-> <<i, i>>]
             st3 == reuse_ocr_data(r2.st, old_version, new_version, page_map)
             r3 == reuse_text_field(st3, old_version, new_version, page_map)
         IN  IF ~r2.ok THEN Crash(r2.st)
             ELSE IF ~r3.ok THEN Crash(st3)
             ELSE Ok(r3.st)

\* PagesRotateView.rotate_pages(pages_data)
rotate_pages(st, pages, pages_data) ==
    IF pages = <<>> THEN Crash(st)
    ELSE LET old_version == document_version(pages[1])
             doc == old_version[1]
             st1 == version_bump_same(st, doc)
             new_version == LastVersion(st1, doc)
             r2 == rotate_pdf_pages(st1, old_version, new_version,
                        annotate_page_data(st, pages, pages_data))
             page_map == [i \in DOMAIN Version(st, old_version).pages |-> <<i, i>>]
             r3 == reuse_text_field(r2.st, old_version, new_version, page_map)
         IN  IF ~r2.ok THEN Crash(r2.st)
             ELSE IF ~r3.ok THEN Crash(r2.st)
             ELSE Ok(r3.st)

---------------------------------------------------------------------------
(* Move to folder *)

\* Document.objects.create_document(parent=dst_folder): a new Document row.
create_document(st, dst_folder) ==
    [st EXCEPT !.docs = Append(@, [folder |-> dst_folder, versions |-> <<>>])]

\* Document.version_bump_from_pages(pages): a new last version whose pages
\* are seeded, in the given order, from the given pages: one placeholder
\* row per page and a file holding the PDF pages they name.
version_bump_from_pages(st, d, pages) ==
    LET st1 == version_bump(st, d, Len(pages))
        readable == \A i \in DOMAIN pages :
                       /\ Version(st, document_version(pages[i])).has_file
                       /\ pages[i].number \in
                            DOMAIN Version(st, document_version(pages[i])).payload
    IN  IF readable
        THEN [ok |-> TRUE,
              st |-> save_pdf(st1, LastVersion(st1, d),
                        [i \in DOMAIN pages |->
                            Version(st, document_version(pages[i]))
                                .payload[pages[i].number]])]
        ELSE [ok |-> FALSE, st |-> st1]

RECURSIVE copy_page_loop(_, _, _, _)
\* copy_page for the first n pages of the listing, into the pages of the
\* version dst_version with the same position.
copy_page_loop(st, pages, dst_version, n) ==
    IF n = 0 THEN st
    ELSE copy_page(copy_page_loop(st, pages, dst_version, n - 1),
                   pages[n],
                   [d |-> dst_version[1], v |-> dst_version[2], number |-> n])

\* move_to_folder_multi_paged with the identity as page map: page i of the
\* new document takes the text of page i of the source version.
move_to_folder_multi_paged_identity_map(st, pages, first_page, dst_folder) ==
    LET st1 == create_document(st, dst_folder)
        new_doc == Len(st1.docs)
        r2 == version_bump_from_pages(st1, new_doc, pages)
        dst_version == LastVersion(r2.st, new_doc)
        page_map == [i \in DOMAIN pages |-> <<i, i>>]
        st3 == copy_page_loop(r2.st, pages, dst_version,
                    MinOf(Len(pages), Len(Version(r2.st, dst_version).pages)))
        r4 == reuse_text_field(st3, document_version(first_page),
                               dst_version, page_map)
    IN  IF ~r2.ok THEN [ok |-> FALSE, st |-> r2.st]
        ELSE IF ~r4.ok THEN [ok |-> FALSE, st |-> st3]
        ELSE r4

\* PagesMoveToFolderView.move_to_folder_multi_paged
move_to_folder_multi_paged(st, pages, first_page, dst_folder) ==
    LET st1 == create_document(st, dst_folder)
        new_doc == Len(st1.docs)
        r2 == version_bump_from_pages(st1, new_doc, pages)
        dst_version == LastVersion(r2.st, new_doc)
        page_map == [i \in DOMAIN pages |-> <<i, pages[i].number>>]
        st3 == copy_page_loop(r2.st, pages, dst_version,
                    MinOf(Len(pages), Len(Version(r2.st, dst_version).pages)))
        r4 == reuse_text_field(st3, document_version(first_page),
                               dst_version, page_map)
    IN  IF ~r2.ok THEN [ok |-> FALSE, st |-> r2.st]
        ELSE IF ~r4.ok THEN [ok |-> FALSE, st |-> st3]
        ELSE r4

RECURSIVE move_to_folder_single_paged_first_text(_, _, _)
\* move_to_folder_single_paged giving every new document the text of page 1
\* of the source version.
move_to_folder_single_paged_first_text(st, pages, dst_folder) ==
    IF pages = <<>> THEN [ok |-> TRUE, st |-> st]
    ELSE LET page == Head(pages)
             st1 == create_document(st, dst_folder)
             doc == Len(st1.docs)
             r2 == version_bump_from_pages(st1, doc, <<page>>)
             doc_version == LastVersion(r2.st, doc)
             st3 == copy_page(r2.st, page,
                        [d |-> doc, v |-> doc_version[2], number |-> 1])
             r4 == reuse_text_field(st3, document_version(page), doc_version,
                                    << <<1, 1>> >>)
         IN  IF ~r2.ok THEN [ok |-> FALSE, st |-> r2.st]
             ELSE IF ~r4.ok THEN [ok |-> FALSE, st |-> st3]
             ELSE move_to_folder_single_paged_first_text(r4.st, Tail(pages),
                                                         dst_folder)

RECURSIVE move_to_folder_single_paged_no_version(_, _, _)
\* move_to_folder_single_paged creating the documents without their version.
move_to_folder_single_paged_no_version(st, pages, dst_folder) ==
    IF pages = <<>> THEN [ok |-> TRUE, st |-> st]
    ELSE move_to_folder_single_paged_no_version(
            create_document(st, dst_folder), Tail(pages), dst_folder)

RECURSIVE move_to_folder_single_paged(_, _, _)
\* PagesMoveToFolderView.move_to_folder_single_paged
move_to_folder_single_paged(st, pages, dst_folder) ==
    IF pages = <<>> THEN [ok |-> TRUE, st |-> st]
    ELSE LET page == Head(pages)
             st1 == create_document(st, dst_folder)
             doc == Len(st1.docs)
             r2 == version_bump_from_pages(st1, doc, <<page>>)
             doc_version == LastVersion(r2.st, doc)
             st3 == copy_page(r2.st, page,
                        [d |-> doc, v |-> doc_version[2], number |-> 1])
             r4 == reuse_text_field(st3, document_version(page), doc_version,
                                    << <<1, page.number>> >>)
         IN  IF ~r2.ok THEN [ok |-> FALSE, st |-> r2.st]
             ELSE IF ~r4.ok THEN [ok |-> FALSE, st |-> st3]
             ELSE move_to_folder_single_paged(r4.st, Tail(pages), dst_folder)

\* PagesMoveToFolderView.move_to_folder(data)
move_to_folder(st, pages, dst_folder, single_page) ==
    IF pages = <<>> THEN Crash(st)
    ELSE LET first_page == pages[1]
             src_old_version == document_version(first_page)
             doc == src_old_version[1]
             st1 == version_bump(st, doc,
                        Len(Version(st, src_old_version).pages) - Len(pages))
             src_new_version == LastVersion(st1, doc)
             r2 == remove_and_reuse(st1, src_old_version, src_new_version, pages)
             r3 == IF single_page
                   THEN move_to_folder_single_paged(r2.st, pages, dst_folder)
                   ELSE move_to_folder_multi_paged(r2.st, pages, first_page,
                                                   dst_folder)
         IN  IF ~r2.ok THEN Crash(r2.st)
             ELSE IF ~r3.ok THEN Crash(r3.st)
             ELSE Ok(r3.st)

---------------------------------------------------------------------------
(* Move to document *)

\* pikepdf: pdf.pages.insert(index, page); index is 0-based, a negative
\* index counts from the end, IndexError outside the list.
pages_insert(pdf, index, page) ==
    LET at == IF index < 0 THEN index + Len(pdf) ELSE index
    IN  IF at < 0 \/ at > Len(pdf)
        THEN [ok |-> FALSE, pdf |-> pdf]
        ELSE [ok |-> TRUE,
              pdf |-> [i \in 1..(Len(pdf) + 1) |->
                          IF i <= at THEN pdf[i]
                          ELSE IF i = at + 1 THEN page
                          ELSE pdf[i - 1]]]

RECURSIVE insert_loop(_, _, _, _, _)
\* The loop of insert_pdf_pages.
insert_loop(src_old_pdf, dst_old_pdf, page_numbers, position, inserted_count) ==
    IF page_numbers = <<>> THEN [ok |-> TRUE, pdf |-> dst_old_pdf]
    ELSE IF Head(page_numbers) \notin DOMAIN src_old_pdf
         THEN [ok |-> FALSE, pdf |-> dst_old_pdf]
    ELSE LET r == pages_insert(dst_old_pdf, position + inserted_count,
                               src_old_pdf[Head(page_numbers)])
         IN  IF ~r.ok THEN r
             ELSE insert_loop(src_old_pdf, r.pdf, Tail(page_numbers),
                              position, inserted_count + 1)

insert_pdf_pages(st, src_old_version, dst_old_version, dst_new_version, page_numbers, position) ==
    IF ~Version(st, src_old_version).has_file
       \/ ~Version(st, dst_old_version).has_file
    THEN [ok |-> FALSE, st |-> st]
    ELSE LET r == insert_loop(Version(st, src_old_version).payload,
                              Version(st, dst_old_version).payload,
                              page_numbers, position, 0)
         IN  IF r.ok
             THEN [ok |-> TRUE, st |-> save_pdf(st, dst_new_version, r.pdf)]
             ELSE [ok |-> FALSE, st |-> st]

\* copy_pages_data(old_version, new_version, pages_map): the pairs are
\* <<source number, destination number>>.
copy_pages_data(st, old_version, new_version, pages_map) ==
    copy_loop(st, old_version, new_version, pages_map)

reuse_text_field_multi(st, src_old_version, dst_old_version, dst_new_version, position, pages) ==
    LET count == Len(pages)
        c1 == collect_text_streams(Version(st, dst_old_version),
                                   [pos \in 1..position |-> pos])
        zipped == MinOf(IF count - position > 0 THEN count - position ELSE 0,
                        count)
        c2 == collect_text_streams(Version(st, src_old_version),
                                   [i \in 1..zipped |-> pages[i].number])
        dst_new_total_pages == Len(Version(st, dst_new_version).pages)
        first == position + 1 + count
        c3 == collect_text_streams(Version(st, dst_old_version),
                                   [i \in 1..(dst_new_total_pages + 1 - first) |->
                                       (first + i - 1) - position - count])
    IN  IF c1.ok /\ c2.ok /\ c3.ok
        THEN [ok |-> TRUE,
              st |-> [st EXCEPT
                        !.docs[dst_new_version[1]].versions[dst_new_version[2]] =
                            update_text_field(@, c1.streams \o c2.streams
                                                    \o c3.streams)]]
        ELSE [ok |-> FALSE, st |-> st]

\* move_to_document writing the destination's pages into the version the
\* destination has, without a bump of the destination.
move_to_document_no_dst_bump(st, pages, dst_document, position) ==
    IF pages = <<>> THEN Crash(st)
    ELSE LET src_old_version == document_version(pages[1])
             dst_old_version == LastVersion(st, dst_document)
             doc == src_old_version[1]
             st1 == version_bump(st, doc,
                        Len(Version(st, src_old_version).pages) - Len(pages))
             src_new_version == LastVersion(st1, doc)
             dst_new_version == LastVersion(st1, dst_document)
             r3 == remove_and_reuse(st1, src_old_version, src_new_version, pages)
             r4 == insert_pdf_pages(r3.st, src_old_version, dst_old_version,
                        dst_new_version,
                        [i \in DOMAIN pages |-> pages[i].number], position)
         IN  IF ~r3.ok THEN Crash(r3.st)
             ELSE IF ~r4.ok THEN Crash(r4.st)
             ELSE Ok(r4.st)

\* src_new_version = doc.version_bump(page_count=src_old_version.pages
\* .count() - pages.count())
move_to_document_bump_source(st, src_old_version, pages) ==
    version_bump(st, src_old_version[1],
                 Len(Version(st, src_old_version).pages) - Len(pages))

\* dst_new_version = dst_document.version_bump(page_count=dst_old_version
\* .pages.count() + pages.count())
move_to_document_bump_destination(st, dst_old_version, pages) ==
    version_bump(st, dst_old_version[1],
                 Len(Version(st, dst_old_version).pages) + Len(pages))

\* move_to_document after its two bumps, on the source: remove_pdf_pages,
\* get_assigns_after_delete, reuse_ocr_data, reuse_text_field.
move_to_document_write_source(st, src_old_version, src_new_version, pages) ==
    remove_and_reuse(st, src_old_version, src_new_version, pages)

\* move_to_document on the destination: insert_pdf_pages, copy_pages_data,
\* reuse_text_field_multi.
move_to_document_write_destination(st, src_old_version, dst_old_version, dst_new_version, pages, position) ==
    LET r4 == insert_pdf_pages(st, src_old_version, dst_old_version,
                  dst_new_version,
                  [i \in DOMAIN pages |-> pages[i].number], position)
        dst_page_map == [i \in DOMAIN pages |->
                            <<pages[i].number, pages[i].number + position>>]
        st5 == copy_pages_data(r4.st, dst_old_version, dst_new_version,
                               dst_page_map)
        r6 == reuse_text_field_multi(st5, src_old_version, dst_old_version,
                  dst_new_version, position, pages)
    IN  IF ~r4.ok THEN Crash(r4.st)
        ELSE IF ~r6.ok THEN Crash(st5)
        ELSE Ok(r6.st)

\* PagesMoveToDocumentView.move_to_document(data)
move_to_document(st, pages, dst_document, position) ==
    IF pages = <<>> THEN Crash(st)
    ELSE LET src_old_version == document_version(pages[1])
             dst_old_version == LastVersion(st, dst_document)
             st1 == move_to_document_bump_source(st, src_old_version, pages)
             src_new_version == LastVersion(st1, src_old_version[1])
             st2 == move_to_document_bump_destination(st1, dst_old_version,
                                                      pages)
             dst_new_version == LastVersion(st2, dst_document)
             r3 == move_to_document_write_source(st2, src_old_version,
                                                 src_new_version, pages)
         IN  IF ~r3.ok THEN Crash(r3.st)
             ELSE move_to_document_write_destination(r3.st, src_old_version,
                     dst_old_version, dst_new_version, pages, position)

---------------------------------------------------------------------------
(* Requests *)

VersionRefs(st) == {document_version(r) : r \in PageRefs(st)}

PksOf(st, vr) == {Pk(st, r) : r \in {x \in PageRefs(st) : document_version(x) = vr}}

\* The page selections of one version: some pages of it, or no page at all.
Selections(st) ==
    {{}} \cup UNION { SUBSET PksOf(st, vr) \ {{}} : vr \in VersionRefs(st) }

\* Selections that mix versions: one page of a version and one page of
\* another version or document.
MixedSelections(st) ==
    UNION { { {p, f} : p \in PksOf(st, vr), f \in AllPks(st) \ PksOf(st, vr) } :
            vr \in VersionRefs(st) }

\* The angles a rotate request gives.
Angles == {90, 180}

\* The pages_data of reorder requests on version vr: pages in ascending
\* number, each with its own number as old_number.  Either some pages S of
\* the version permuted among themselves (every page when S is the whole
\* version), or every page with its own number as new number except one page,
\* which is sent to another number of 1..n+1, or no assignment at all.
ReorderData(st, vr) ==
    LET pages == Version(st, vr).pages
        n == Len(pages)
        item(k, new) == [id |-> pages[k].pk, old_number |-> k, new_number |-> new]
        permuted(S) ==
            LET pos == SortedSeq(S)
            IN  { [i \in DOMAIN pos |-> item(pos[i], g[pos[i]])] :
                  g \in {h \in [S -> S] : {h[k] : k \in S} = S} }
        one_off == { [k \in 1..n |-> item(k, IF k = p THEN m ELSE k)] :
                     p \in 1..n, m \in 1..(n + 1) }
    IN  {<<>>} \cup one_off
           \cup UNION { permuted(S) : S \in (SUBSET (1..n)) \ {{}} }

\* The pages_data of rotate requests on version vr: some pages, each with an
\* angle, or no page at all.
RotateData(st, vr) ==
    LET pages == Version(st, vr).pages
    IN  UNION { { LET pos == SortedSeq(S)
                  IN  [i \in DOMAIN pos |->
                          [id |-> pages[pos[i]].pk, angle |-> a[pos[i]]]] :
                  a \in [S -> Angles] } :
                S \in SUBSET DOMAIN pages }

Folders == {"inbox"}

NoRequest == [op |-> "none", status |-> "ok", detail |-> "", pages |-> <<>>,
              old |-> <<>>, data |-> <<>>, dst |-> 0, position |-> 0,
              single_page |-> FALSE]

\* What a served request leaves: the store as written, and the last two
\* requests.
Logged(op, res, pages, data, dst, position, single_page) ==
    /\ docs' = res.st.docs
    /\ next_pk' = res.st.next_pk
    /\ nops' = nops + 1
    /\ prev' = last
    /\ last' = [op |-> op, status |-> res.status, detail |-> res.detail,
                pages |-> pages,
                old |-> IF pages = <<>> THEN <<>> ELSE document_version(pages[1]),
                data |-> data, dst |-> dst, position |-> position,
                single_page |-> single_page]

\* A request served from its first statement to its response.
Record(op, res, pages, data, dst, position, single_page) ==
    /\ Logged(op, res, pages, data, dst, position, single_page)
    /\ inflight' = inflight

\* DELETE /pages/{id}/
DeletePageRequest ==
    \E r \in PageRefs(Store) :
       Record("delete_page", perform_destroy(Store, r), <<r>>, <<>>, 0, 0, FALSE)

DeletePage == nops < MaxOps /\ DeletePageRequest

\* DELETE /pages/
DeletePagesRequest ==
    \E ids \in Selections(Store) \cup MixedSelections(Store) :
       \E q \in filter_pages(Store, ids) :
          Record("delete_pages", delete_pages(Store, q), q, <<>>, 0, 0, FALSE)

DeletePages == nops < MaxOps /\ DeletePagesRequest

\* POST /pages/reorder/
Reorder ==
    /\ nops < MaxOps
    /\ \E vr \in VersionRefs(Store) :
          \E pages_data \in ReorderData(Store, vr) :
             \E q \in filter_pages(Store, {pages_data[i].id : i \in DOMAIN pages_data}) :
                Record("reorder", reorder_pages(Store, q, pages_data), q,
                       pages_data, 0, 0, FALSE)

\* POST /pages/rotate/
Rotate ==
    /\ nops < MaxOps
    /\ \E vr \in VersionRefs(Store) :
          \E pages_data \in RotateData(Store, vr) :
             \E q \in filter_pages(Store, {pages_data[i].id : i \in DOMAIN pages_data}) :
                Record("rotate", rotate_pages(Store, q, pages_data), q,
                       pages_data, 0, 0, FALSE)

\* POST /pages/move-to-folder/
MoveToFolder ==
    /\ nops < MaxOps
    /\ \E ids \in Selections(Store), dst \in Folders, single_page \in BOOLEAN :
          \E q \in filter_pages(Store, ids) :
             Record("move_to_folder", move_to_folder(Store, q, dst, single_page),
                    q, <<>>, 0, 0, single_page)

\* POST /pages/move-to-document/
MoveToDocument ==
    /\ nops < MaxOps
    /\ \E ids \in Selections(Store), dst \in DOMAIN docs :
          \E position \in (-1)..Len(Version(Store, LastVersion(Store, dst)).pages) :
             \E q \in filter_pages(Store, ids) :
                Record("move_to_document",
                       move_to_document(Store, q, dst, position),
                       q, <<>>, dst, position, FALSE)

---------------------------------------------------------------------------
(* Initial state: two uploaded documents of one user, texts extracted. *)

Uploaded(folder, first_pk, contents, texts) ==
    [ folder |-> folder,
      versions |-> << [ page_count |-> Len(contents),
                        pages |-> [i \in DOMAIN contents |->
                                     [pk |-> first_pk + i - 1, text |-> texts[i]]],
                        has_file |-> TRUE,
                        payload |-> [i \in DOMAIN contents |->
                                       [content |-> contents[i], angle |-> 0]],
                        text |-> Join(texts),
                        artifacts |-> contents ] >> ]

Init ==
    /\ docs = << Uploaded("home", 1, <<"A1", "A2", "A3">>, <<"cat", "dog", "monkey">>),
                 Uploaded("home", 4, <<"B1", "B2">>, <<"flower", "tree">>) >>
    /\ next_pk = 6
    /\ last = NoRequest
    /\ prev = NoRequest
    /\ nops = 0
    /\ inflight = <<>>

Next ==
    \/ DeletePage
    \/ DeletePages
    \/ Reorder
    \/ Rotate
    \/ MoveToFolder
    \/ MoveToDocument

Spec == Init /\ [][Next]_vars

\* Behaviours of delete requests only.
DeletePageOnly == nops < MaxDeletes /\ DeletePageRequest

DeletePagesOnly == nops < MaxDeletes /\ DeletePagesRequest

NextDelete ==
    \/ DeletePageOnly
    \/ DeletePagesOnly

SpecDelete == Init /\ [][NextDelete]_vars

\* Behaviours of delete requests on one uploaded document of 1..MaxPages
\* pages.
InitPages ==
    /\ \E n \in 1..MaxPages :
          /\ docs = << Uploaded("home", 1,
                                [i \in 1..n |-> "A" \o ToString(i)],
                                [i \in 1..n |-> "text" \o ToString(i)]) >>
          /\ next_pk = n + 1
    /\ last = NoRequest
    /\ prev = NoRequest
    /\ nops = 0
    /\ inflight = <<>>

DeletePageOfPages == nops < MaxPageDeletes /\ DeletePageRequest

DeletePagesOfPages == nops < MaxPageDeletes /\ DeletePagesRequest

NextPages ==
    \/ DeletePageOfPages
    \/ DeletePagesOfPages

SpecPages == InitPages /\ [][NextPages]_vars

\* The orders in which the rows S can be iterated.
Orderings(S) == {q \in [1..Cardinality(S) -> S] : Range(q) = S}

\* remove_pdf_pages called on its own: on the last version of a document,
\* with any listing of some but not all of its pages, in any order, and a
\* new version of the document to write to.
RemovePdfPages ==
    /\ nops < MaxPageDeletes
    /\ \E d \in DOMAIN docs :
          LET old_version == LastVersion(Store, d)
              rows == {r \in PageRefs(Store) : document_version(r) = old_version}
          IN  \E S \in (SUBSET rows) \ {{}, rows} :
                 \E pages_to_delete \in Orderings(S) :
                    LET st1 == version_bump(Store, d,
                                   Version(Store, old_version).page_count
                                       - Len(pages_to_delete))
                        r == remove_pdf_pages(st1, old_version,
                                              LastVersion(st1, d), pages_to_delete)
                    IN  Record("remove_pdf_pages",
                               IF r.ok THEN Ok(r.st) ELSE Crash(r.st),
                               pages_to_delete, <<>>, 0, 0, FALSE)

NextRemove ==
    \/ RemovePdfPages

SpecRemove == InitPages /\ [][NextRemove]_vars

---------------------------------------------------------------------------
(* Concurrent requests.  Nothing in the handlers takes a lock or opens a   *)
(* transaction, so two requests interleave between their database and      *)
(* storage accesses.  A bulk delete or a reorder reads its pages and tests *)
(* them, bumps the document, saves the file of the version the bump        *)
(* returned, copies the artifacts into it one page at a time and writes    *)
(* its texts; each of these reads the store as the steps of the other      *)
(* requests have left it, the version another request is still writing     *)
(* included.                                                               *)

\* A request that has read its pages: refused or failed already, or ready
\* for its bump.
Started(op, outcome, pages, data) ==
    [op |-> op, pages |-> pages, data |-> data,
     old |-> IF pages = <<>> THEN <<>> ELSE document_version(pages[1]),
     new |-> <<>>, page_map |-> <<>>, copied |-> 0,
     pc |-> IF outcome.status = "ok" THEN "validated" ELSE "done",
     status |-> outcome.status]

Begin(request) ==
    /\ inflight' = Append(inflight, request)
    /\ UNCHANGED <<docs, next_pk, last, prev, nops>>

\* DELETE /pages/ up to old_version.pages.count().
RaceBeginDelete ==
    /\ Len(inflight) < MaxRacers
    /\ \E ids \in Selections(Store) \cup MixedSelections(Store) :
          \E q \in filter_pages(Store, ids) :
             Begin(Started("delete_pages", delete_pages_validate(Store, q),
                           q, <<>>))

\* POST /pages/reorder/ up to pages.first().document_version.
RaceBeginReorder ==
    /\ Len(inflight) < MaxRacers
    /\ \E vr \in VersionRefs(Store) :
          \E pages_data \in ReorderData(Store, vr) :
             \E q \in filter_pages(Store, {pages_data[i].id : i \in DOMAIN pages_data}) :
                Begin(Started("reorder",
                              IF q = <<>> THEN Crash(Store) ELSE Ok(Store),
                              q, pages_data))

\* doc.version_bump(...) of request i; the request keeps the version the
\* bump returned.
RaceBump ==
    \E i \in DOMAIN inflight :
       /\ inflight[i].pc = "validated"
       /\ LET req == inflight[i]
              st1 == IF req.op = "delete_pages"
                     THEN delete_pages_bump(Store, req.old, req.pages)
                     ELSE reorder_pages_bump(Store, req.old)
          IN  /\ docs' = st1.docs
              /\ next_pk' = st1.next_pk
              /\ inflight' = [inflight EXCEPT
                                ![i].pc = "bumped",
                                ![i].new = LastVersion(st1, req.old[1])]
       /\ UNCHANGED <<last, prev, nops>>

\* delete_pages from remove_pdf_pages to get_assigns_after_delete, the file
\* saved as the document's last version at the time of the save.
delete_pages_save_to_last_version(st, old_version, new_version, pages_to_delete) ==
    LET r == remove_pdf_pages(st, old_version,
                              LastVersion(st, old_version[1]), pages_to_delete)
    IN  [status |-> IF r.ok THEN "ok" ELSE "crash", st |-> r.st,
         page_map |-> delete_page_map(st, old_version, pages_to_delete)]

\* delete_pages from remove_pdf_pages to get_assigns_after_delete: the file
\* of the new version is saved and the page map is computed.
delete_pages_save(st, old_version, new_version, pages_to_delete) ==
    LET r == remove_pdf_pages(st, old_version, new_version, pages_to_delete)
    IN  [status |-> IF r.ok THEN "ok" ELSE "crash", st |-> r.st,
         page_map |-> delete_page_map(st, old_version, pages_to_delete)]

\* reorder_pages from old_version.pages.count() to page_map: the file of
\* the new version is saved, then the reordered list is computed or the
\* request refused.
reorder_pages_save(st, old_version, new_version, pages_data) ==
    LET page_count == Len(Version(st, old_version).pages)
        r2 == reorder_pdf_pages(st, old_version, new_version, pages_data)
        reordered_list == get_reordered_list(pages_data, page_count)
    IN  [status |-> IF ~r2.ok THEN "crash"
                    ELSE IF ~reordered_list.ok
                    THEN InvalidRequest(r2.st).status
                    ELSE "ok",
         st |-> r2.st,
         page_map |-> IF r2.ok /\ reordered_list.ok
                      THEN [i \in 1..MinOf(page_count, Len(reordered_list.list)) |->
                               <<i, reordered_list.list[i]>>]
                      ELSE <<>>]

\* remove_pdf_pages or reorder_pdf_pages of request i and the page map of
\* the handler; the response when the file cannot be written or the
\* reorder is refused.
RaceSave ==
    \E i \in DOMAIN inflight :
       /\ inflight[i].pc = "bumped"
       /\ LET req == inflight[i]
              r == IF req.op = "delete_pages"
                   THEN delete_pages_save(Store, req.old, req.new, req.pages)
                   ELSE reorder_pages_save(Store, req.old, req.new, req.data)
          IN  /\ docs' = r.st.docs
              /\ next_pk' = r.st.next_pk
              /\ inflight' = [inflight EXCEPT
                                ![i].pc = IF r.status = "ok" THEN "saved"
                                          ELSE "done",
                                ![i].status = r.status,
                                ![i].page_map = r.page_map]
       /\ UNCHANGED <<last, prev, nops>>

\* One turn of the loop of reuse_ocr_data of request i: storage.copy_page
\* for the next pair of the page map.
RaceCopy ==
    \E i \in DOMAIN inflight :
       /\ inflight[i].pc = "saved"
       /\ inflight[i].copied < Len(inflight[i].page_map)
       /\ LET req == inflight[i]
              st3 == reuse_ocr_data(Store, req.old, req.new,
                                    <<req.page_map[req.copied + 1]>>)
          IN  /\ docs' = st3.docs
              /\ next_pk' = st3.next_pk
              /\ inflight' = [inflight EXCEPT ![i].copied = @ + 1]
       /\ UNCHANGED <<last, prev, nops>>

\* reuse_text_field of request i after the loop of reuse_ocr_data, and the
\* response.
RaceTexts ==
    \E i \in DOMAIN inflight :
       /\ inflight[i].pc = "saved"
       /\ inflight[i].copied = Len(inflight[i].page_map)
       /\ LET req == inflight[i]
              r4 == reuse_text_field(Store, req.old, req.new, req.page_map)
          IN  /\ docs' = r4.st.docs
              /\ next_pk' = r4.st.next_pk
              /\ inflight' = [inflight EXCEPT
                                ![i].pc = "done",
                                ![i].status = IF r4.ok THEN "ok" ELSE "crash"]
       /\ UNCHANGED <<last, prev, nops>>

NextRace ==
    \/ RaceBeginDelete
    \/ RaceBeginReorder
    \/ RaceBump
    \/ RaceSave
    \/ RaceCopy
    \/ RaceTexts

\* One uploaded document, no request yet.
InitRace ==
    /\ docs = << Uploaded("home", 1, <<"A1", "A2", "A3">>, <<"cat", "dog", "monkey">>) >>
    /\ next_pk = 4
    /\ last = NoRequest
    /\ prev = NoRequest
    /\ nops = 0
    /\ inflight = <<>>

SpecRace == InitRace /\ [][NextRace]_vars

---------------------------------------------------------------------------
(* The handlers one statement group at a time: a request is received, and
   the worker that serves it runs the handler's reads, bumps and writes in
   the order of the code.  Requests are served one after the other. *)

\* A request as its handler sees it after the reads at its top.
Request(op, pages, data, dst, position, single_page, pc, status) ==
    [op |-> op, pages |-> pages, data |-> data,
     old |-> IF pages = <<>> THEN <<>> ELSE document_version(pages[1]),
     new |-> <<>>,
     dst |-> IF op = "move_to_folder" THEN 0 ELSE dst,
     folder |-> IF op = "move_to_folder" THEN dst ELSE "",
     dst_old |-> IF op = "move_to_document" /\ pages # <<>>
                 THEN LastVersion(Store, dst) ELSE <<>>,
     dst_new |-> <<>>, position |-> position, single_page |-> single_page,
     page_map |-> <<>>, copied |-> 0,
     pc |-> pc, status |-> status]

\* The worker is free: every request received so far has its response.
Idle ==
    /\ Len(inflight) < MaxStarted
    /\ \A i \in DOMAIN inflight : inflight[i].pc = "done"

\* DELETE /pages/{id}/ is received.
BeginDeletePage ==
    /\ Idle
    /\ \E r \in PageRefs(Store) :
          Begin(Request("delete_page", <<r>>, <<>>, 0, 0, FALSE, "started", "ok"))

\* DELETE /pages/ up to old_version.pages.count().
BeginDeletePages ==
    /\ Idle
    /\ \E ids \in Selections(Store) \cup MixedSelections(Store) :
          \E q \in filter_pages(Store, ids) :
             LET outcome == delete_pages_validate(Store, q)
             IN  Begin(Request("delete_pages", q, <<>>, 0, 0, FALSE,
                               IF outcome.status = "ok" THEN "validated"
                               ELSE "done", outcome.status))

\* POST /pages/reorder/ up to pages.first().document_version.
BeginReorder ==
    /\ Idle
    /\ \E vr \in VersionRefs(Store) :
          \E pages_data \in ReorderData(Store, vr) :
             \E q \in filter_pages(Store, {pages_data[i].id : i \in DOMAIN pages_data}) :
                Begin(Request("reorder", q, pages_data, 0, 0, FALSE,
                              IF q = <<>> THEN "done" ELSE "validated",
                              IF q = <<>> THEN "crash" ELSE "ok"))

\* POST /pages/rotate/ is received.
BeginRotate ==
    /\ Idle
    /\ \E vr \in VersionRefs(Store) :
          \E pages_data \in RotateData(Store, vr) :
             \E q \in filter_pages(Store, {pages_data[i].id : i \in DOMAIN pages_data}) :
                Begin(Request("rotate", q, pages_data, 0, 0, FALSE,
                              "started", "ok"))

\* POST /pages/move-to-folder/ is received.
BeginMoveToFolder ==
    /\ Idle
    /\ \E ids \in Selections(Store), dst \in Folders, single_page \in BOOLEAN :
          \E q \in filter_pages(Store, ids) :
             Begin(Request("move_to_folder", q, <<>>, dst, 0, single_page,
                           "started", "ok"))

\* POST /pages/move-to-document/ up to dst_old_version =
\* dst_document.versions.last().
BeginMoveToDocument ==
    /\ Idle
    /\ \E ids \in Selections(Store), dst \in DOMAIN docs :
          \E position \in (-1)..Len(Version(Store, LastVersion(Store, dst)).pages) :
             \E q \in filter_pages(Store, ids) :
                Begin(Request("move_to_document", q, <<>>, dst, position, FALSE,
                              IF q = <<>> THEN "done" ELSE "read",
                              IF q = <<>> THEN "crash" ELSE "ok"))

\* perform_destroy, rotate_pages or move_to_folder of request i, and its
\* response.
Handle ==
    \E i \in DOMAIN inflight :
       /\ inflight[i].pc = "started"
       /\ LET req == inflight[i]
              res == IF req.op = "delete_page"
                     THEN perform_destroy(Store, req.pages[1])
                     ELSE IF req.op = "rotate"
                     THEN rotate_pages(Store, req.pages, req.data)
                     ELSE move_to_folder(Store, req.pages, req.folder,
                                         req.single_page)
          IN  /\ docs' = res.st.docs
              /\ next_pk' = res.st.next_pk
              /\ inflight' = [inflight EXCEPT
                                ![i].pc = "done",
                                ![i].status = res.status]
       /\ UNCHANGED <<last, prev, nops>>

\* src_new_version = doc.version_bump(...) of move_to_document.
MoveBumpSource ==
    \E i \in DOMAIN inflight :
       /\ inflight[i].pc = "read"
       /\ LET req == inflight[i]
              st1 == move_to_document_bump_source(Store, req.old, req.pages)
          IN  /\ docs' = st1.docs
              /\ next_pk' = st1.next_pk
              /\ inflight' = [inflight EXCEPT
                                ![i].pc = "source_bumped",
                                ![i].new = LastVersion(st1, req.old[1])]
       /\ UNCHANGED <<last, prev, nops>>

\* dst_new_version = dst_document.version_bump(...) of move_to_document.
MoveBumpDestination ==
    \E i \in DOMAIN inflight :
       /\ inflight[i].pc = "source_bumped"
       /\ LET req == inflight[i]
              st2 == move_to_document_bump_destination(Store, req.dst_old,
                                                       req.pages)
          IN  /\ docs' = st2.docs
              /\ next_pk' = st2.next_pk
              /\ inflight' = [inflight EXCEPT
                                ![i].pc = "destination_bumped",
                                ![i].dst_new = LastVersion(st2, req.dst)]
       /\ UNCHANGED <<last, prev, nops>>

\* MoveWriteSource starting the handler over when the source statements
\* raise.
MoveWriteSource_retrying ==
    \E i \in DOMAIN inflight :
       /\ inflight[i].pc = "destination_bumped"
       /\ LET req == inflight[i]
              r3 == move_to_document_write_source(Store, req.old, req.new,
                                                  req.pages)
          IN  /\ docs' = r3.st.docs
              /\ next_pk' = r3.st.next_pk
              /\ inflight' = [inflight EXCEPT
                                ![i].pc = IF r3.ok THEN "source_written"
                                          ELSE "read"]
       /\ UNCHANGED <<last, prev, nops>>

\* The statements of move_to_document on the source version.
MoveWriteSource ==
    \E i \in DOMAIN inflight :
       /\ inflight[i].pc = "destination_bumped"
       /\ LET req == inflight[i]
              r3 == move_to_document_write_source(Store, req.old, req.new,
                                                  req.pages)
          IN  /\ docs' = r3.st.docs
              /\ next_pk' = r3.st.next_pk
              /\ inflight' = [inflight EXCEPT
                                ![i].pc = IF r3.ok THEN "source_written"
                                          ELSE "done",
                                ![i].status = IF r3.ok THEN "ok" ELSE "crash"]
       /\ UNCHANGED <<last, prev, nops>>

\* The statements of move_to_document on the destination version, and the
\* response.
MoveWriteDestination ==
    \E i \in DOMAIN inflight :
       /\ inflight[i].pc = "source_written"
       /\ LET req == inflight[i]
              res == move_to_document_write_destination(Store, req.old,
                        req.dst_old, req.dst_new, req.pages, req.position)
          IN  /\ docs' = res.st.docs
              /\ next_pk' = res.st.next_pk
              /\ inflight' = [inflight EXCEPT
                                ![i].pc = "done",
                                ![i].status = res.status]
       /\ UNCHANGED <<last, prev, nops>>

NextSteps ==
    \/ BeginDeletePage
    \/ BeginDeletePages
    \/ BeginReorder
    \/ BeginRotate
    \/ BeginMoveToFolder
    \/ BeginMoveToDocument
    \/ Handle
    \/ RaceBump
    \/ RaceSave
    \/ RaceCopy
    \/ RaceTexts
    \/ MoveBumpSource
    \/ MoveBumpDestination
    \/ MoveWriteSource
    \/ MoveWriteDestination

\* Two uploaded documents, no request yet.
InitSteps ==
    /\ docs = << Uploaded("home", 1, <<"A1", "A2">>, <<"cat", "dog">>),
                 Uploaded("home", 3, <<"B1">>, <<"flower">>) >>
    /\ next_pk = 4
    /\ last = NoRequest
    /\ prev = NoRequest
    /\ nops = 0
    /\ inflight = <<>>

SpecSteps == InitSteps /\ [][NextSteps]_vars

\* A bump of the handler of a received request.
Bump ==
    \/ RaceBump
    \/ MoveBumpSource
    \/ MoveBumpDestination

\* A statement group of a handler that writes payload, artifacts or texts.
Write ==
    \/ Handle
    \/ RaceSave
    \/ RaceCopy
    \/ RaceTexts
    \/ MoveWriteSource
    \/ MoveWriteDestination

\* Some received request is at a statement group that writes: the guard of
\* Write, which has no other.
Writing ==
    \E i \in DOMAIN inflight :
       inflight[i].pc \in {"started", "bumped", "saved",
                           "destination_bumped", "source_written"}

\* The worker that received a request keeps running its handler: weak
\* fairness of Bump and of Write, the latter written out with Writing for
\* ENABLED <<Write>>_vars.
SpecStepsFair ==
    /\ SpecSteps
    /\ WF_vars(Bump)
    /\ ([]<>(~Writing) \/ []<><<Write>>_vars)

---------------------------------------------------------------------------
(* GET /pages/{id}/ *)

\* Page.get_svg() and Page.get_jpeg(): the content of the page's file, which
\* is read only when the file is there (IOError otherwise).
get_svg(pk) == "svg" \o ToString(pk)

get_jpeg(pk) == "jpeg" \o ToString(pk)

\* The media type of the renderer DRF selected for the requested format.
media_type(format) ==
    CASE format = "txt" -> "text/plain"
      [] format = "svg" -> "image/svg+xml"
      [] format \in {"jpeg", "jpg"} -> "image/jpeg"
      [] format = "html" -> "text/html"
      [] OTHER -> "application/vnd.api+json"

Response(data, content_type) ==
    [status |-> 200, content_type |-> content_type, data |-> data]

\* raise Http404(msg), which DRF answers with status 404.
Http404(msg) ==
    [status |-> 404, content_type |-> "application/vnd.api+json", data |-> msg]

\* PageSerializer(instance).data
serializer_data(st, r) ==
    "id=" \o ToString(Pk(st, r)) \o ",number=" \o ToString(r.number)
        \o ",text=" \o Version(st, document_version(r)).pages[r.number].text

\* PageView.retrieve falling back to no image when the SVG is missing.
retrieve_without_fallback(st, pk, format, svg_available, jpeg_available) ==
    LET found == {r \in PageRefs(st) : Pk(st, r) = pk}
    IN  IF found = {} THEN Http404("Not found.")
        ELSE LET instance == CHOOSE r \in found : TRUE
                 text == Version(st, document_version(instance))
                            .pages[instance.number].text
             IN  IF format = "txt" THEN Response(text, media_type(format))
                 ELSE IF format \in {"html", "jpeg", "jpg"}
                 THEN IF jpeg_available
                      THEN Response(get_jpeg(pk), media_type(format))
                      ELSE Http404("Jpeg image not available")
                 ELSE IF format = "svg"
                 THEN IF svg_available
                      THEN Response(get_svg(pk), "image/svg+xml")
                      ELSE Http404("Neither JPEG nor SVG image not available")
                 ELSE Response(serializer_data(st, instance),
                               media_type(format))

\* PageView.retrieve(request) for the page id of the URL, the format DRF
\* negotiated, and the files the storage holds for the page.
retrieve(st, pk, format, svg_available, jpeg_available) ==
    LET found == {r \in PageRefs(st) : Pk(st, r) = pk}
    IN  IF found = {} THEN Http404("Not found.")
        ELSE LET instance == CHOOSE r \in found : TRUE
                 text == Version(st, document_version(instance))
                            .pages[instance.number].text
             IN  IF format = "txt" THEN Response(text, media_type(format))
                 ELSE IF format \in {"html", "jpeg", "jpg"}
                 THEN IF jpeg_available
                      THEN Response(get_jpeg(pk), media_type(format))
                      ELSE Http404("Jpeg image not available")
                 ELSE IF format = "svg"
                 THEN IF svg_available
                      THEN Response(get_svg(pk), "image/svg+xml")
                      ELSE IF jpeg_available
                      THEN Response(get_jpeg(pk), "image/jpeg")
                      ELSE Http404("Neither JPEG nor SVG image not available")
                 ELSE Response(serializer_data(st, instance),
                               media_type(format))

Formats == {"txt", "html", "jpeg", "jpg", "svg", "json"}

\* GET /pages/{id}/ for a page id of the store or an id no page has.
Retrieve ==
    /\ Len(inflight) < MaxRetrieves
    /\ \E pk \in AllPks(Store) \cup {next_pk}, format \in Formats,
          svg_available \in BOOLEAN, jpeg_available \in BOOLEAN :
          Begin([op |-> "retrieve", pk |-> pk, format |-> format,
                 svg_available |-> svg_available,
                 jpeg_available |-> jpeg_available,
                 response |-> retrieve(Store, pk, format,
                                       svg_available, jpeg_available)])

NextRetrieve ==
    \/ Retrieve
    \/ DeletePageOfPages

SpecRetrieve == InitPages /\ [][NextRetrieve]_vars

---------------------------------------------------------------------------
(* task_monitor.task.dict2channel_data *)

\* A Python str as the sequence of its characters.  str.split(sep) for a
\* one-character sep: the pieces between the occurrences of sep.
RECURSIVE split(_, _)
split(s, sep) ==
    IF \A i \in DOMAIN s : s[i] # sep THEN <<s>>
    ELSE LET i == CHOOSE k \in DOMAIN s :
                     s[k] = sep /\ \A j \in 1..(k - 1) : s[j] # sep
         IN  <<SubSeq(s, 1, i - 1)>> \o split(SubSeq(s, i + 1, Len(s)), sep)

RECURSIVE replace(_, _, _)
\* str.replace(old, new) for a non-empty old: the occurrences of old from
\* the left, not overlapping.
replace(s, old, new) ==
    IF Len(s) < Len(old) THEN s
    ELSE IF SubSeq(s, 1, Len(old)) = old
    THEN new \o replace(SubSeq(s, Len(old) + 1, Len(s)), old, new)
    ELSE <<Head(s)>> \o replace(Tail(s), old, new)

\* A dict: a function from its keys to their values; the empty dict.
EmptyDict == [k \in {} |-> <<>>]

\* dict.pop(key) for a key of the dict: the dict without the key.
pop(d, key) == [k \in DOMAIN d \ {key} |-> d[k]]

\* dict.update(other)
update(d, other) ==
    [k \in DOMAIN d \cup DOMAIN other |->
        IF k \in DOMAIN other THEN other[k] ELSE d[k]]

\* The keys the tasks of the model have, and each as a str.
KeyNames == {"type", "task_name", "task_id", "document_id"}

Chars(key) ==
    CASE key = "type" -> <<"t", "y", "p", "e">>
      [] key = "task_name" -> <<"t", "a", "s", "k", "_", "n", "a", "m", "e">>
      [] key = "task_id" -> <<"t", "a", "s", "k", "_", "i", "d">>
      [] key = "document_id" ->
            <<"d", "o", "c", "u", "m", "e", "n", "t", "_", "i", "d">>

RECURSIVE strip(_)
\* str.strip() for blanks.
strip(s) ==
    IF s = <<>> THEN s
    ELSE IF Head(s) = " " THEN strip(Tail(s))
    ELSE IF s[Len(s)] = " " THEN strip(SubSeq(s, 1, Len(s) - 1))
    ELSE s

\* A JSON string without escapes, and what is between its quotes.
quoted(s) ==
    /\ Len(s) >= 2
    /\ s[1] = "\"" /\ s[Len(s)] = "\""
    /\ \A i \in 2..(Len(s) - 1) : s[i] \notin {"\"", "\\"}

unquote(s) == SubSeq(s, 2, Len(s) - 1)

\* json.loads(s) for the texts the model draws: an object whose members are
\* strings without commas, colons, quotes or escapes, a later member
\* replacing an earlier one of the same key, or a text that is no JSON
\* (JSONDecodeError).
json_loads(s) ==
    LET n == Len(s)
        body == SubSeq(s, 2, n - 1)
        items == IF strip(body) = <<>> THEN <<>> ELSE split(body, ",")
        parts(i) == split(items[i], ":")
        key(i) == strip(parts(i)[1])
        value(i) == strip(parts(i)[2])
        wellformed ==
            /\ n >= 2 /\ s[1] = "{" /\ s[n] = "}"
            /\ \A i \in DOMAIN items :
                  /\ Len(parts(i)) = 2
                  /\ quoted(key(i)) /\ quoted(value(i))
                  /\ \E k \in KeyNames : Chars(k) = unquote(key(i))
        keys == {k \in KeyNames :
                    \E i \in DOMAIN items : Chars(k) = unquote(key(i))}
        member(k) == CHOOSE i \in DOMAIN items :
                        /\ Chars(k) = unquote(key(i))
                        /\ \A j \in DOMAIN items :
                              Chars(k) = unquote(key(j)) => j <= i
    IN  IF wellformed
        THEN [ok |-> TRUE, data |-> [k \in keys |-> unquote(value(member(k)))]]
        ELSE [ok |-> FALSE, data |-> EmptyDict]

\* Task(name, **kwargs): the keys of the task.
Task(name, kwargs) ==
    update(IF name # <<>> THEN [k \in {"task_name"} |-> name] ELSE EmptyDict,
           kwargs)

\* Task.update(json_str, **kwargs) on the keys of the task.
Task_update(task, json_str, kwargs) ==
    LET json_str2 == replace(json_str, <<"N", "o", "n", "e">>,
                             <<"n", "u", "l", "l">>)
        json_str3 == replace(json_str2, <<"'">>, <<"\"">>)
        loaded == json_loads(json_str3)
    IN  IF json_str = <<>>
        THEN [raised |-> "", task |-> update(task, kwargs)]
        ELSE IF Len(json_str) <= 2 THEN [raised |-> "", task |-> task]
        ELSE IF ~loaded.ok THEN [raised |-> "JSONDecodeError", task |-> task]
        ELSE [raised |-> "", task |-> update(task, loaded.data)]

\* A call of dict2channel_data that raises KeyError(key) and leaves its
\* argument as task_dict.
KeyError(key, task_dict) ==
    [raised |-> "KeyError", key |-> key, group_name |-> <<>>,
     channel_data |-> EmptyDict, task_dict |-> task_dict]

\* dict2channel_data taking the first segment of task_name.
dict2channel_data_first_segment(task_dict) ==
    IF "type" \notin DOMAIN task_dict THEN KeyError("type", task_dict)
    ELSE IF "task_name" \notin DOMAIN task_dict
    THEN KeyError("task_name", pop(task_dict, "type"))
    ELSE LET orig_type == task_dict["type"]
             orig_task_name == task_dict["task_name"]
             rest == pop(pop(task_dict, "type"), "task_name")
             orig_short_name == split(orig_task_name, ".")[1]
             short_name == replace(orig_short_name, <<"_">>, <<>>)
             _type == replace(orig_type, <<"-">>, <<>>)
             new_type == short_name \o <<".">> \o _type
             ret_dict == update([k \in {"type"} |-> new_type], rest)
         IN  [raised |-> "", key |-> "", group_name |-> orig_short_name,
              channel_data |-> ret_dict, task_dict |-> rest]

\* dict2channel_data(task_dict): what the call returns or raises, and
\* task_dict as the call leaves it (the two pops take their keys out of the
\* caller's dict).
dict2channel_data(task_dict) ==
    IF "type" \notin DOMAIN task_dict THEN KeyError("type", task_dict)
    ELSE IF "task_name" \notin DOMAIN task_dict
    THEN KeyError("task_name", pop(task_dict, "type"))
    ELSE LET orig_type == task_dict["type"]
             orig_task_name == task_dict["task_name"]
             rest == pop(pop(task_dict, "type"), "task_name")
             pieces == split(orig_task_name, ".")
             orig_short_name == pieces[Len(pieces)]
             short_name == replace(orig_short_name, <<"_">>, <<>>)
             _type == replace(orig_type, <<"-">>, <<>>)
             new_type == short_name \o <<".">> \o _type
             ret_dict == update([k \in {"type"} |-> new_type], rest)
         IN  [raised |-> "", key |-> "", group_name |-> orig_short_name,
              channel_data |-> ret_dict, task_dict |-> rest]

\* The strings of at most n characters over an alphabet.
RECURSIVE Strings(_, _)
Strings(alphabet, n) ==
    IF n = 0 THEN {<<>>}
    ELSE LET shorter == Strings(alphabet, n - 1)
         IN  shorter \cup {Append(s, c) : s \in shorter, c \in alphabet}

\* The task of the docstring.
OcrDocumentTask ==
    <<"p", "a", "p", "e", "r", "m", "e", "r", "g", "e", ".", "c",
      "o", "r", "e", ".", "t", "a", "s", "k", "s", ".", "o", "c", "r",
      "_", "d", "o", "c", "u", "m", "e", "n", "t", "_", "t", "a", "s",
      "k">>

TaskReceived ==
    <<"t", "a", "s", "k", "-", "r", "e", "c", "e", "i", "v", "e",
      "d">>

TaskNames == Strings({"a", "_", "."}, MaxNameLen) \cup {OcrDocumentTask}

TaskTypes == Strings({"t", "-"}, MaxTypeLen) \cup {TaskReceived}

\* The other keys of a task: none, or a task id and a document id.
TaskExtras == { EmptyDict,
                [k \in {"task_id", "document_id"} |->
                    IF k = "task_id" THEN <<"7", "-", "_">> ELSE <<"1", ".">>] }

\* The keyword arguments of Task(name, **kwargs): a type or none, the other
\* keys, and a task_name of their own or none.
TaskKwargs ==
    {update(update(t, extra), n) :
        t \in {EmptyDict} \cup {[k \in {"type"} |-> type] : type \in TaskTypes},
        extra \in TaskExtras,
        n \in {EmptyDict, [k \in {"task_name"} |-> <<>>]}}

\* The json_str of Task.update: none, '{}', a type, a task id that reads
\* None, a task_name twice, and a text that is no JSON.
JsonStrs ==
    { <<>>,
      <<"{", "}">>,
      <<"{", "'", "t", "y", "p", "e", "'", ":", " ", "'", "t", "-", "'", "}">>,
      <<"{", "'", "t", "a", "s", "k", "_", "i", "d", "'", ":", " ", "'", "N",
        "o", "n", "e", "'", "}">>,
      <<"{", "'", "t", "a", "s", "k", "_", "n", "a", "m", "e", "'", ":", " ",
        "'", "a", "'", ",", " ", "'", "t", "a", "s", "k", "_", "n", "a", "m",
        "e", "'", ":", " ", "'", "a", ".", "_", "'", "}">>,
      <<"{", "'", "t", "y", "p", "e", "'", "}">> }

\* The keyword arguments of Task.update.
UpdateKwargs ==
    { EmptyDict,
      [k \in {"type"} |-> <<"t">>],
      [k \in {"task_name"} |-> <<"a", ".", "a">>] }

\* A task as Task(name, **kwargs) constructs it; nothing was called yet.
InitChannel ==
    /\ docs = <<>>
    /\ next_pk = 1
    /\ last = NoRequest
    /\ prev = NoRequest
    /\ nops = 0
    /\ \E name \in TaskNames, kwargs \in TaskKwargs :
          inflight = << [op |-> "dict2channel_data",
                         name |-> name,
                         task |-> Task(name, kwargs),
                         updates |-> 0,
                         update_raised |-> "",
                         calls |-> 0,
                         argument |-> EmptyDict,
                         task_dict |-> EmptyDict,
                         returned |-> <<>>] >>

\* task.update(json_str, **kwargs), before the task is handed on.
TaskUpdate ==
    /\ inflight[1].calls = 0
    /\ inflight[1].updates < MaxUpdates
    /\ \E json_str \in JsonStrs, kwargs \in UpdateKwargs :
          LET r == Task_update(inflight[1].task, json_str, kwargs)
          IN  inflight' = [inflight EXCEPT
                             ![1].task = r.task,
                             ![1].update_raised = r.raised,
                             ![1].updates = @ + 1]
    /\ UNCHANGED <<docs, next_pk, last, prev, nops>>

\* dict2channel_data(task_dict): the first call is on task_dict = dict(task),
\* a later call is on the same task_dict again.  argument is task_dict as
\* the call received it, task_dict as the call left it.
Dict2ChannelData ==
    /\ inflight[1].calls < MaxCalls
    /\ LET argument == IF inflight[1].calls = 0 THEN inflight[1].task
                       ELSE inflight[1].task_dict
           r == dict2channel_data(argument)
       IN  inflight' = [inflight EXCEPT
                          ![1].calls = @ + 1,
                          ![1].argument = argument,
                          ![1].task_dict = r.task_dict,
                          ![1].returned =
                              <<[raised |-> r.raised, key |-> r.key,
                                 group_name |-> r.group_name,
                                 channel_data |-> r.channel_data]>>]
    /\ UNCHANGED <<docs, next_pk, last, prev, nops>>

NextChannel ==
    \/ TaskUpdate
    \/ Dict2ChannelData

SpecChannel == InitChannel /\ [][NextChannel]_vars

---------------------------------------------------------------------------
(* Requests of two users *)

Users == {"user1", "user2"}

\* Folder.user: the home folder and the inbox of each user.
FolderUser(folder) ==
    IF folder \in {"home", "inbox"} THEN "user1" ELSE "user2"

UserFolders == {"inbox", "inbox2"}

\* Document.user: create_document gives a document the user of the folder
\* it is created in.
DocumentUser(st, d) == FolderUser(st.docs[d].folder)

\* Http404 of get_object(): no row of the view's queryset has the id.
NotFound(st) == [st |-> st, status |-> "not_found", detail |-> "Not found."]

\* PageView.get_queryset(): the pages of the documents of request.user.
get_queryset(st, user) ==
    {r \in PageRefs(st) : DocumentUser(st, r.d) = user}

\* A request of an authenticated user, served from its first statement to
\* its response.
RecordBy(user, op, res, pages, data, dst, position, single_page) ==
    /\ Logged(op, res, pages, data, dst, position, single_page)
    /\ inflight' = << [op |-> op, user |-> user] >>

\* DELETE /pages/{id}/ by user: get_object() on get_queryset(), then
\* perform_destroy.
UserDeletePage ==
    /\ nops < MaxUserOps
    /\ \E user \in Users, r \in PageRefs(Store) :
          RecordBy(user, "delete_page",
                   IF r \in get_queryset(Store, user)
                   THEN perform_destroy(Store, r) ELSE NotFound(Store),
                   <<r>>, <<>>, 0, 0, FALSE)

\* DELETE /pages/ by user.
UserDeletePages ==
    /\ nops < MaxUserOps
    /\ \E user \in Users, ids \in Selections(Store) \cup MixedSelections(Store) :
          \E q \in filter_pages(Store, ids) :
             RecordBy(user, "delete_pages", delete_pages(Store, q),
                      q, <<>>, 0, 0, FALSE)

\* POST /pages/reorder/ by user.
UserReorder ==
    /\ nops < MaxUserOps
    /\ \E user \in Users, vr \in VersionRefs(Store) :
          \E pages_data \in ReorderData(Store, vr) :
             \E q \in filter_pages(Store, {pages_data[i].id : i \in DOMAIN pages_data}) :
                RecordBy(user, "reorder", reorder_pages(Store, q, pages_data),
                         q, pages_data, 0, 0, FALSE)

\* POST /pages/rotate/ by user.
UserRotate ==
    /\ nops < MaxUserOps
    /\ \E user \in Users, vr \in VersionRefs(Store) :
          \E pages_data \in RotateData(Store, vr) :
             \E q \in filter_pages(Store, {pages_data[i].id : i \in DOMAIN pages_data}) :
                RecordBy(user, "rotate", rotate_pages(Store, q, pages_data),
                         q, pages_data, 0, 0, FALSE)

\* POST /pages/move-to-folder/ by user: Folder.objects.get(pk=data['dst'],
\* user=self.request.user) raises for a folder of another user.
UserMoveToFolder ==
    /\ nops < MaxUserOps
    /\ \E user \in Users, ids \in Selections(Store), dst \in UserFolders,
          single_page \in BOOLEAN :
          \E q \in filter_pages(Store, ids) :
             RecordBy(user, "move_to_folder",
                      IF FolderUser(dst) = user
                      THEN move_to_folder(Store, q, dst, single_page)
                      ELSE Crash(Store),
                      q, <<>>, 0, 0, single_page)

\* POST /pages/move-to-document/ by user: Document.objects.get(
\* pk=data['dst'], user=self.request.user) raises for a document of another
\* user.
UserMoveToDocument ==
    /\ nops < MaxUserOps
    /\ \E user \in Users, ids \in Selections(Store), dst \in DOMAIN docs :
          \E position \in (-1)..Len(Version(Store, LastVersion(Store, dst)).pages) :
             \E q \in filter_pages(Store, ids) :
                RecordBy(user, "move_to_document",
                         IF DocumentUser(Store, dst) = user
                         THEN move_to_document(Store, q, dst, position)
                         ELSE Crash(Store),
                         q, <<>>, dst, position, FALSE)

NextUsers ==
    \/ UserDeletePage
    \/ UserDeletePages
    \/ UserReorder
    \/ UserRotate
    \/ UserMoveToFolder
    \/ UserMoveToDocument

\* A document of user1 and a document of user2, no request yet.
InitUsers ==
    /\ docs = << Uploaded("home", 1, <<"A1", "A2">>, <<"cat", "dog">>),
                 Uploaded("home2", 3, <<"B1", "B2">>, <<"flower", "tree">>) >>
    /\ next_pk = 5
    /\ last = NoRequest
    /\ prev = NoRequest
    /\ nops = 0
    /\ inflight = <<>>

SpecUsers == InitUsers /\ [][NextUsers]_vars

---------------------------------------------------------------------------
(* What the last request did *)

IsDelete == last.op \in {"delete_page", "delete_pages"}

Accepted == last.status = "ok"

\* Every page of the request belongs to the version of its first page.
OneVersion ==
    \A i \in DOMAIN last.pages : document_version(last.pages[i]) = last.old

\* The version the request read its pages from, and the last version of
\* that document now.
OldVersion == Version(Store, last.old)

NewVersion == Version(Store, LastVersion(Store, last.old[1]))

\* The page numbers the request named.
Numbers == {last.pages[i].number : i \in DOMAIN last.pages}

---------------------------------------------------------------------------
(* Claims *)

\* C1: after an accepted single or bulk delete of a set D of pages of one
\* version with page_count n, the document's last version has page_count
\* n - |D| and a file of exactly n - |D| pages.
C1_DeleteCounts ==
    (IsDelete /\ Accepted /\ OneVersion) =>
        /\ NewVersion.page_count = OldVersion.page_count - Len(last.pages)
        /\ NewVersion.has_file
        /\ Len(NewVersion.payload) = OldVersion.page_count - Len(last.pages)

\* The numbers of the pages of the old version the request did not name,
\* ascending.
Survivors == SortedSeq(DOMAIN OldVersion.pages \ Numbers)

PageTexts(version) == [i \in DOMAIN version.pages |-> version.pages[i].text]

\* C2: after an accepted delete of pages of one version, the i-th surviving
\* page (ascending original number) is page i of the new version with the
\* text it had in the old version, and the new version's text is its page
\* texts in order, joined by one space.
C2_DeleteKeepsTexts ==
    (IsDelete /\ Accepted /\ OneVersion) =>
        /\ Len(NewVersion.pages) = Len(Survivors)
        /\ \A i \in DOMAIN Survivors :
              NewVersion.pages[i].text = OldVersion.pages[Survivors[i]].text
        /\ NewVersion.text = Join(PageTexts(NewVersion))

\* A delete of pages 1 and 2 of a three-page version went through: the new
\* version has the text of page 3 alone.
C2_Witness ==
    /\ IsDelete /\ Accepted /\ OneVersion
    /\ Numbers = {1, 2}
    /\ Len(OldVersion.pages) = 3
    /\ OldVersion.pages[3].text = "monkey"
    /\ PageTexts(NewVersion) = <<"monkey">>
    /\ NewVersion.text = "monkey"

\* C3: every version of every document has page_count >= 1.
C3_PageCountAtLeastOne ==
    \A d \in DOMAIN docs : \A v \in DOMAIN docs[d].versions :
        docs[d].versions[v].page_count >= 1

IsEdit(req) == req.op \in {"reorder", "rotate", "move_to_folder", "move_to_document"}

Rejected(req) == req.status \in {"bad_request", "invalid_request"}

\* The request being served names a page that is archived when it arrives.
NamesArchived ==
    \E i \in DOMAIN last'.pages : is_archived(Store, last'.pages[i])

Served == nops' = nops + 1

NothingWritten == docs' = docs /\ next_pk' = next_pk

\* C4: a reorder, rotate, move_to_folder or move_to_document request that
\* names a page of an archived version is refused as a bad request and
\* writes nothing.
C4_EditOfArchivedRejected ==
    [][(Served /\ IsEdit(last') /\ NamesArchived) =>
           (last'.status = "bad_request" /\ NothingWritten)]_vars

\* C5: a single or bulk delete that names a page of a version that is not
\* its document's last version is rejected with 'Deleting archived page is
\* not allowed' and creates no version.
C5_DeleteOfArchivedRejected ==
    [][(Served /\ last'.op \in {"delete_page", "delete_pages"} /\ NamesArchived) =>
           /\ last'.status = "bad_request"
           /\ last'.detail = ArchivedMsg
           /\ NothingWritten]_vars

\* A delete of a page of the first version of a document that has a second
\* version was refused with the archived message.
C5_Witness ==
    /\ IsDelete
    /\ last.status = "bad_request" /\ last.detail = ArchivedMsg
    /\ last.pages # <<>>
    /\ last.old[2] < Len(docs[last.old[1]].versions)

RefusedAtLeastOne(req) ==
    req.status = "bad_request" /\ req.detail = AtLeastOneMsg

\* C6 as written: a bulk delete is refused with 'Document version must have
\* at least one page' exactly when it names at least as many pages as the
\* version of its first page has.
C6_RefusedExactlyWhenTooMany ==
    [][(Served /\ last'.op = "delete_pages" /\ last'.pages # <<>>) =>
           (RefusedAtLeastOne(last') <=>
                Len(last'.pages) >= Len(Version(Store, last'.old).pages))]_vars

\* C6 amended: the same, for bulk deletes that name no archived page.
C6_RefusedExactlyWhenTooManyCurrent ==
    [][(Served /\ last'.op = "delete_pages" /\ last'.pages # <<>>
           /\ ~NamesArchived) =>
           (RefusedAtLeastOne(last') <=>
                Len(last'.pages) >= Len(Version(Store, last'.old).pages))]_vars

\* The three pages of document 1 were deleted one request at a time: two
\* requests went through and the third, on the only page left, was refused.
C6_Witness ==
    /\ nops = 3
    /\ Len(docs[1].versions) = 3
    /\ Len(docs[1].versions[1].pages) = 3
    /\ Len(docs[1].versions[2].pages) = 2
    /\ Len(docs[1].versions[3].pages) = 1
    /\ prev.op = "delete_pages" /\ prev.status = "ok" /\ Len(prev.pages) = 1
    /\ last.op = "delete_pages" /\ RefusedAtLeastOne(last)
    /\ last.pages = <<[d |-> 1, v |-> 3, number |-> 1]>>

\* C7: a request that ends in a validation failure has written nothing.
C7_RejectedWritesNothing ==
    [][(Served /\ Rejected(last')) => NothingWritten]_vars

\* The new numbers of the assignments are exactly 1..n, one for every page
\* of a version of n pages.
IsPermutation(data, n) ==
    /\ Len(data) = n
    /\ {data[i].old_number : i \in DOMAIN data} = 1..n
    /\ {data[i].new_number : i \in DOMAIN data} = 1..n

\* C8: a reorder whose assignments are not a permutation of the pages of
\* the version is rejected as invalid and creates no version.
C8_InvalidReorderRejected ==
    [][(Served /\ last'.op = "reorder" /\ last'.pages # <<>>
           /\ ~IsPermutation(last'.data, Len(Version(Store, last'.old).pages))) =>
           (Rejected(last') /\ NothingWritten)]_vars

\* C9: after a reorder that went through, with assignments that are a
\* permutation of 1..n, the new version has n pages and for every
\* assignment the page new_number of the new version has the PDF page and
\* the text of the page old_number of the old version.
C9_ReorderMovesPagesAndTexts ==
    (last.op = "reorder" /\ Accepted
        /\ IsPermutation(last.data, Len(OldVersion.pages))) =>
        /\ NewVersion.page_count = Len(OldVersion.pages)
        /\ Len(NewVersion.pages) = Len(OldVersion.pages)
        /\ NewVersion.has_file
        /\ Len(NewVersion.payload) = Len(OldVersion.pages)
        /\ \A i \in DOMAIN last.data :
              /\ NewVersion.payload[last.data[i].new_number] =
                    OldVersion.payload[last.data[i].old_number]
              /\ NewVersion.pages[last.data[i].new_number].text =
                    OldVersion.pages[last.data[i].old_number].text

\* Pages ["cat", "dog", "monkey"] reordered 1->2, 2->3, 3->1.
C9_Witness ==
    /\ last.op = "reorder" /\ Accepted
    /\ [i \in DOMAIN last.data |-> last.data[i].new_number] = <<2, 3, 1>>
    /\ PageTexts(OldVersion) = <<"cat", "dog", "monkey">>
    /\ PageTexts(NewVersion) = <<"monkey", "cat", "dog">>
    /\ [i \in DOMAIN NewVersion.payload |-> NewVersion.payload[i].content]
          = <<"A3", "A1", "A2">>

\* The second request undoes the first: it gives old number k the new
\* number that the first request took k from.
IsInverse(data, first) ==
    /\ Len(data) = Len(first)
    /\ \A i \in DOMAIN first : \E j \in DOMAIN data :
          /\ data[j].old_number = first[i].new_number
          /\ data[j].new_number = first[i].old_number

\* Two reorders served one after the other, both went through, the second on
\* the version the first made, with the inverse assignments.
ReorderThenInverse ==
    /\ prev.op = "reorder" /\ prev.status = "ok"
    /\ last.op = "reorder" /\ Accepted
    /\ last.old = <<prev.old[1], Len(docs[prev.old[1]].versions) - 1>>
    /\ IsPermutation(prev.data, Len(Version(Store, prev.old).pages))
    /\ IsInverse(last.data, prev.data)

\* C10: the assignments of a reorder that went through are one-to-one on
\* 1..n, and a reorder followed by the reorder with the inverse assignments
\* gives back the page order of the original version, PDF pages and texts.
C10_ReorderInverseRestores ==
    /\ (last.op = "reorder" /\ Accepted) =>
           /\ IsPermutation(last.data, Len(OldVersion.pages))
           /\ \A i, j \in DOMAIN last.data :
                 last.data[i].new_number = last.data[j].new_number => i = j
    /\ ReorderThenInverse =>
           /\ NewVersion.payload = Version(Store, prev.old).payload
           /\ PageTexts(NewVersion) = PageTexts(Version(Store, prev.old))

\* 1->2, 2->3, 3->1 and then 1->3, 2->1, 3->2 on a three-page document.
C10_Witness ==
    /\ ReorderThenInverse
    /\ [i \in DOMAIN prev.data |-> prev.data[i].new_number] = <<2, 3, 1>>
    /\ [i \in DOMAIN last.data |-> last.data[i].new_number] = <<3, 1, 2>>
    /\ PageTexts(NewVersion) = <<"cat", "dog", "monkey">>

\* The angle the rotate request served last gives for page n of the version
\* it read, 0 for a page it does not list.
AngleGiven(n) ==
    IF \E i \in DOMAIN last.data : last.data[i].id = OldVersion.pages[n].pk
    THEN last.data[CHOOSE i \in DOMAIN last.data :
                      last.data[i].id = OldVersion.pages[n].pk].angle
    ELSE 0

\* Every PDF page of the new version has the content of the page of the
\* same number of the old version, turned by the angle given for it.
OnlyOrientationChanged ==
    /\ NewVersion.has_file
    /\ Len(NewVersion.payload) = Len(OldVersion.payload)
    /\ \A n \in DOMAIN OldVersion.payload :
          /\ NewVersion.payload[n].content = OldVersion.payload[n].content
          /\ NewVersion.payload[n].angle =
                (OldVersion.payload[n].angle + AngleGiven(n)) % 360

\* C11: after a rotate that went through, the new version has the
\* page_count, the pages in the order, the page texts and the text of the
\* version the request read; every PDF page has the content it had, a listed
\* page is turned by its angle from where it was and an unlisted page keeps
\* its orientation.
C11_RotateChangesOnlyOrientation ==
    (last.op = "rotate" /\ Accepted) =>
        /\ NewVersion.page_count = OldVersion.page_count
        /\ Len(NewVersion.pages) = Len(OldVersion.pages)
        /\ PageTexts(NewVersion) = PageTexts(OldVersion)
        /\ NewVersion.text = OldVersion.text
        /\ OnlyOrientationChanged

\* The rotate served last read the version that was its document's last
\* version, whose file and text were in step with its page rows.
RotateOfSoundCurrent ==
    /\ last.op = "rotate" /\ Accepted
    /\ last.old[2] = Len(docs[last.old[1]].versions) - 1
    /\ Len(OldVersion.payload) = Len(OldVersion.pages)
    /\ OldVersion.text = Join(PageTexts(OldVersion))

\* The same property for rotates of a current version in step: it holds.
RotateOfCurrentChangesOnlyOrientation ==
    RotateOfSoundCurrent =>
        /\ NewVersion.page_count = OldVersion.page_count
        /\ Len(NewVersion.pages) = Len(OldVersion.pages)
        /\ PageTexts(NewVersion) = PageTexts(OldVersion)
        /\ NewVersion.text = OldVersion.text
        /\ OnlyOrientationChanged

\* The move_to_document served last went through and its destination is
\* another document than the source.
MovedToOtherDocument ==
    /\ last.op = "move_to_document" /\ Accepted
    /\ last.dst # last.old[1]

\* The version that was the destination's last version when that request
\* arrived, and the destination's last version now.
DstOldVersion == Version(Store, <<last.dst, Len(docs[last.dst].versions) - 1>>)

DstNewVersion == Version(Store, LastVersion(Store, last.dst))

\* The PDF pages the request moved, in ascending source page number.
MovedPayload == [i \in DOMAIN last.pages |-> OldVersion.payload[last.pages[i].number]]

\* B's new version has |B| + k pages and its file is B's old pages 1..P,
\* the moved pages, then B's old pages P+1..|B|.
InsertedAtPosition ==
    /\ DstNewVersion.page_count = Len(DstOldVersion.pages) + Len(last.pages)
    /\ Len(DstNewVersion.pages) = Len(DstOldVersion.pages) + Len(last.pages)
    /\ DstNewVersion.has_file
    /\ Len(DstNewVersion.payload) = Len(DstOldVersion.pages) + Len(last.pages)
    /\ Len(DstOldVersion.payload) = Len(DstOldVersion.pages)
    /\ DstNewVersion.payload =
          SubSeq(DstOldVersion.payload, 1, last.position)
             \o MovedPayload
             \o SubSeq(DstOldVersion.payload, last.position + 1,
                       Len(DstOldVersion.payload))

\* C12: after a move_to_document of k pages of document A into another
\* document B at a position P of 0..|B| that went through, B's new version
\* has |B| + k pages and its file is B's old pages 1..P, the moved pages in
\* ascending source number, then B's old pages P+1..|B|.
C12_MoveToDocumentPayload ==
    (MovedToOtherDocument /\ last.position \in 0..Len(DstOldVersion.pages)) =>
        InsertedAtPosition

\* The same property for a destination whose file has one page per page
\* row: it holds.
MoveToSoundDocumentPayload ==
    (MovedToOtherDocument /\ last.position \in 0..Len(DstOldVersion.pages)
        /\ Len(DstOldVersion.payload) = Len(DstOldVersion.pages)) =>
        InsertedAtPosition

\* The texts of the pages the request moved, in ascending source number.
MovedTexts == [i \in DOMAIN last.pages |-> OldVersion.pages[last.pages[i].number].text]

\* C13: after a move_to_document of k >= 1 pages into another document B
\* at a position P of 0..|B| that went through, the page texts of B's new
\* version are the texts of B's old pages 1..P, then the texts of the moved
\* pages in ascending source number, then the texts of B's old pages
\* P+1..|B|: one text for every new position.
C13_MoveToDocumentTexts ==
    (MovedToOtherDocument /\ last.position \in 0..Len(DstOldVersion.pages)) =>
        PageTexts(DstNewVersion) =
            SubSeq(PageTexts(DstOldVersion), 1, last.position)
               \o MovedTexts
               \o SubSeq(PageTexts(DstOldVersion), last.position + 1,
                         Len(DstOldVersion.pages))

\* The same property for position 0 alone: it holds.
MoveToDocumentFrontTexts ==
    (MovedToOtherDocument /\ last.position = 0) =>
        PageTexts(DstNewVersion) = MovedTexts \o PageTexts(DstOldVersion)

IsMove(req) == req.op \in {"move_to_folder", "move_to_document"}

\* What a bulk delete of the pages of the request being served would do to
\* the store the request finds.
DeleteOfSamePages == delete_pages(Store, last'.pages)

\* The request being served left the source document as the delete would.
SourceAsAfterDelete ==
    docs'[last'.old[1]].versions = DeleteOfSamePages.st.docs[last'.old[1]].versions

\* C14: a move_to_folder or move_to_document (into another document) is
\* refused, writing nothing, whenever the bulk delete of the same pages
\* would be refused, and a move that goes through leaves the source
\* document with the versions the delete would leave it with.
C14_MoveSourceAsDelete ==
    [][(Served /\ IsMove(last') /\ last'.pages # <<>>
           /\ (last'.op = "move_to_document" => last'.dst # last'.old[1])) =>
           /\ DeleteOfSamePages.status = "bad_request" =>
                 (last'.status = "bad_request" /\ NothingWritten)
           /\ (DeleteOfSamePages.status = "ok" /\ last'.status = "ok") =>
                 SourceAsAfterDelete]_vars

\* The second half alone, for moves the delete would accept too: it holds.
AcceptedMoveSourceAsDelete ==
    [][(Served /\ IsMove(last') /\ last'.pages # <<>>
           /\ (last'.op = "move_to_document" => last'.dst # last'.old[1])
           /\ DeleteOfSamePages.status = "ok" /\ last'.status = "ok") =>
           SourceAsAfterDelete]_vars

\* The i-th document the step creates, and the i-th page the request being
\* served names.
NewDocument(i) == docs'[Len(docs) + i]

MovedPage(i) == last'.pages[i]

\* Document i of the new documents holds one version of one page: the PDF
\* page and the text of page i of the request.
HoldsMovedPageAlone(i) ==
    /\ NewDocument(i).folder \in Folders
    /\ Len(NewDocument(i).versions) = 1
    /\ NewDocument(i).versions[1].page_count = 1
    /\ Len(NewDocument(i).versions[1].pages) = 1
    /\ NewDocument(i).versions[1].pages[1].text =
          Version(Store, document_version(MovedPage(i))).pages[MovedPage(i).number].text
    /\ NewDocument(i).versions[1].has_file
    /\ NewDocument(i).versions[1].payload =
          << Version(Store, document_version(MovedPage(i))).payload[MovedPage(i).number] >>

\* C15: a move_to_folder with single_page = true of k pages that goes
\* through creates exactly k documents in the destination folder, the i-th
\* with one version of one page that has the PDF page and the text of the
\* i-th moved page.
C15_SinglePagedOneDocumentPerPage ==
    [][(Served /\ last'.op = "move_to_folder" /\ last'.single_page
           /\ last'.status = "ok") =>
           /\ Len(docs') = Len(docs) + Len(last'.pages)
           /\ \A i \in DOMAIN last'.pages : HoldsMovedPageAlone(i)]_vars

\* Pages 1 and 3 of ["cat", "dog", "monkey"] were moved, one document each.
C15_Witness ==
    /\ last.op = "move_to_folder" /\ last.single_page /\ Accepted
    /\ Numbers = {1, 3} /\ last.old = <<1, 1>>
    /\ Len(docs) = 4
    /\ PageTexts(docs[3].versions[1]) = <<"cat">>
    /\ PageTexts(docs[4].versions[1]) = <<"monkey">>
    /\ docs[3].versions[1].payload[1].content = "A1"
    /\ docs[4].versions[1].payload[1].content = "A3"
    /\ PageTexts(NewVersion) = <<"dog">>

\* The artifact slot of page n of a version, <<>> when it holds nothing.
ArtifactOf(version, n) ==
    IF n \in DOMAIN version.artifacts THEN <<version.artifacts[n]>> ELSE <<>>

\* C16: a move_to_folder with single_page = false of k pages that goes
\* through creates exactly one document in the destination folder, with one
\* version of k pages: page i has the PDF page, the text and the artifact of
\* the i-th moved page in ascending source page number.
C16_MultiPagedOneDocument ==
    [][(Served /\ last'.op = "move_to_folder" /\ ~last'.single_page
           /\ last'.status = "ok") =>
           /\ Len(docs') = Len(docs) + 1
           /\ NewDocument(1).folder \in Folders
           /\ Len(NewDocument(1).versions) = 1
           /\ NewDocument(1).versions[1].page_count = Len(last'.pages)
           /\ Len(NewDocument(1).versions[1].pages) = Len(last'.pages)
           /\ Len(NewDocument(1).versions[1].payload) = Len(last'.pages)
           /\ \A i \in DOMAIN last'.pages :
                 /\ i > 1 => MovedPage(i - 1).number < MovedPage(i).number
                 /\ NewDocument(1).versions[1].payload[i] =
                       Version(Store, last'.old).payload[MovedPage(i).number]
                 /\ NewDocument(1).versions[1].pages[i].text =
                       Version(Store, last'.old).pages[MovedPage(i).number].text
                 /\ ArtifactOf(NewDocument(1).versions[1], i) =
                       ArtifactOf(Version(Store, last'.old), MovedPage(i).number)]_vars

\* Pages 1 and 3 of ["cat", "dog", "monkey"] were moved into one document.
C16_Witness ==
    /\ last.op = "move_to_folder" /\ ~last.single_page /\ Accepted
    /\ Numbers = {1, 3} /\ last.old = <<1, 1>>
    /\ Len(docs) = 3
    /\ PageTexts(docs[3].versions[1]) = <<"cat", "monkey">>
    /\ docs[3].versions[1].text = "cat monkey"
    /\ docs[3].versions[1].artifacts = <<"A1", "A3">>
    /\ PageTexts(NewVersion) = <<"dog">>

\* C17: a step changes no version that existed before it: every version of
\* every document is afterwards where it was, with the same page rows,
\* texts, file and artifacts, whether the request went through or not.
C17_ExistingVersionsUnchanged ==
    [][\A d \in DOMAIN docs : \A v \in DOMAIN docs[d].versions :
          /\ d \in DOMAIN docs'
          /\ v \in DOMAIN docs'[d].versions
          /\ docs'[d].versions[v] = docs[d].versions[v]]_vars

\* Document 1 was rotated and then had a page deleted: its first version
\* is archived and is still the uploaded one.
C17_Witness ==
    /\ prev.op = "rotate" /\ prev.status = "ok" /\ prev.old = <<1, 1>>
    /\ IsDelete /\ Accepted /\ last.old = <<1, 2>>
    /\ Len(docs[1].versions) = 3
    /\ docs[1].versions[1] =
          Uploaded("home", 1, <<"A1", "A2", "A3">>, <<"cat", "dog", "monkey">>).versions[1]
    /\ \E n \in DOMAIN docs[1].versions[2].payload :
          docs[1].versions[2].payload[n].angle # 0

\* The versions of document d that are not archived in store st.
CurrentVersions(st, d) ==
    {v \in DOMAIN st.docs[d].versions :
        ~is_archived(st, [d |-> d, v |-> v, number |-> 1])}

\* Every document has exactly one current version, its last one; every page
\* of every other version is archived, and was created before every page of
\* the current version.
OneCurrentVersion ==
    \A d \in DOMAIN docs :
        /\ Cardinality(CurrentVersions(Store, d)) = 1
        /\ CurrentVersions(Store, d) = {Len(docs[d].versions)}
        /\ \A r \in PageRefs(Store) :
              (r.d = d /\ r.v < Len(docs[d].versions)) =>
                 /\ is_archived(Store, r)
                 /\ \A q \in PageRefs(Store) :
                       (q.d = d /\ q.v = Len(docs[d].versions)) =>
                          Pk(Store, r) < Pk(Store, q)

\* A step that gives document d a version makes a version of this step the
\* current one and the version that was current archived.
BumpArchivesPrevious ==
    \A d \in DOMAIN docs :
        Len(docs'[d].versions) > Len(docs[d].versions) =>
            /\ \A v \in CurrentVersions(Store', d) : v > Len(docs[d].versions)
            /\ \A v \in CurrentVersions(Store, d) : v \notin CurrentVersions(Store', d)

\* C18: in every reachable state every document has exactly one current
\* version, the one created last, and a step that bumps a document makes the
\* new version current and the version that was current archived.
C18_OneCurrentVersion ==
    /\ []OneCurrentVersion
    /\ [][BumpArchivesPrevious]_vars

\* Document 1 has three versions after two requests that went through: the
\* third is current, the pages of the first two are archived.
C18_Witness ==
    /\ Len(docs[1].versions) = 3
    /\ prev.status = "ok" /\ Accepted
    /\ CurrentVersions(Store, 1) = {3}
    /\ is_archived(Store, [d |-> 1, v |-> 1, number |-> 1])
    /\ is_archived(Store, [d |-> 1, v |-> 2, number |-> 1])
    /\ Len(docs) > 2

\* How many versions document d gains in the step.
Gained(d) == Len(docs'[d].versions) - Len(docs[d].versions)

\* How many times d is the source or the destination of the request being
\* served.
TimesTargeted(d) ==
    (IF last'.old[1] = d THEN 1 ELSE 0)
       + (IF last'.op = "move_to_document" /\ last'.dst = d THEN 1 ELSE 0)

MoveBetweenDocumentsAfterDelete ==
    /\ prev.op \in {"delete_page", "delete_pages"} /\ prev.status = "ok"
    /\ prev.old = <<1, 1>>
    /\ last.op = "move_to_document" /\ Accepted
    /\ last.old = <<1, 2>> /\ last.dst = 2
    /\ Len(docs[1].versions) = 3
    /\ Len(docs[2].versions) = 2

C20_FailureKeepsCurrentVersion ==
    [][(Served /\ last'.status = "crash") =>
           \A d \in DOMAIN docs :
               CurrentVersions(Store', d) = CurrentVersions(Store, d)]_vars

\* The page map the delete served last built from the version it read.
DeleteMap == delete_page_map(Store, last.old, last.pages)

\* C21: the page map built for an accepted delete of the positions D of a
\* version of n pages has n - |D| pairs; the i-th pair has new_number i, the
\* old_numbers ascend and are exactly the positions of 1..n that are not in
\* D, each once.
C21_DeleteMapIsCompaction ==
    (IsDelete /\ Accepted /\ OneVersion) =>
        /\ Len(DeleteMap) = OldVersion.page_count - Cardinality(Numbers)
        /\ \A i \in DOMAIN DeleteMap : DeleteMap[i][1] = i
        /\ \A i, j \in DOMAIN DeleteMap :
              i < j => DeleteMap[i][2] < DeleteMap[j][2]
        /\ {DeleteMap[i][2] : i \in DOMAIN DeleteMap} =
              (1..OldVersion.page_count) \ Numbers

\* Page 3 of a five-page version was deleted: [(1,1),(2,2),(3,4),(4,5)].
C21_Witness ==
    /\ IsDelete /\ Accepted /\ OneVersion
    /\ OldVersion.page_count = 5
    /\ Numbers = {3}
    /\ DeleteMap = << <<1, 1>>, <<2, 2>>, <<3, 4>>, <<4, 5>> >>
    /\ PageTexts(NewVersion) = <<"text1", "text2", "text4", "text5">>

\* The request being served is a bulk delete, reorder, rotate or move that
\* names no page.
EmptySelection ==
    /\ Served
    /\ last'.op = "delete_pages" \/ IsEdit(last')
    /\ last'.pages = <<>>

\* C22: a bulk delete, reorder, rotate, move_to_folder or move_to_document
\* whose page selection is empty is refused as an invalid request and
\* writes nothing.
C22_EmptySelectionInvalidRequest ==
    [][EmptySelection =>
           (last'.status = "invalid_request" /\ NothingWritten)]_vars

\* What the handlers do with an empty selection: the request ends in an
\* error no handler catches, before anything is written.  It holds.
EmptySelectionFailsUnhandled ==
    [][EmptySelection => (last'.status = "crash" /\ NothingWritten)]_vars

\* Requests i and j were served concurrently, read the same version, were
\* both answered with success, and j bumped after i.
BothFromSameVersion(i, j) ==
    /\ inflight[i].pc = "done" /\ inflight[i].status = "ok"
    /\ inflight[j].pc = "done" /\ inflight[j].status = "ok"
    /\ inflight[i].old = inflight[j].old
    /\ inflight[i].new[2] < inflight[j].new[2]

\* The version request j would have made of the version it read, had it
\* been served alone while that version was the document's last.
AloneVersion(j) ==
    LET req == inflight[j]
        d == req.old[1]
        st0 == [docs |-> [docs EXCEPT ![d].versions = SubSeq(@, 1, req.old[2])],
                next_pk |-> next_pk]
        res == IF req.op = "delete_pages"
               THEN delete_pages(st0, req.pages)
               ELSE reorder_pages(st0, req.pages, req.data)
    IN  Version(res.st, LastVersion(res.st, d))

\* Two versions with the same pages: count, file, texts and artifacts.
SameContent(a, b) ==
    /\ a.page_count = b.page_count
    /\ a.has_file = b.has_file
    /\ a.payload = b.payload
    /\ PageTexts(a) = PageTexts(b)
    /\ a.text = b.text
    /\ a.artifacts = b.artifacts

\* C23: when two bulk deletes or reorders served concurrently read the same
\* version of a document and are both answered with success, the document's
\* current version is the version of the request that bumped last and holds
\* what that request alone makes of the version read; the version of the
\* other request is archived and its edit is in no way part of the current
\* version.
C23_ConcurrentEditsLoseOne ==
    \A i, j \in DOMAIN inflight :
        BothFromSameVersion(i, j) =>
            /\ LastVersion(Store, inflight[j].old[1]) = inflight[j].new
            /\ is_archived(Store, [d |-> inflight[i].new[1],
                                   v |-> inflight[i].new[2], number |-> 1])
            /\ SameContent(Version(Store, inflight[j].new), AloneVersion(j))

\* Two deletes read the uploaded version of document 1, one of page 1 and
\* one of page 3; both were answered with success and the current version
\* still has page 1.
C23_Witness ==
    /\ Len(inflight) = 2
    /\ BothFromSameVersion(1, 2)
    /\ inflight[1].op = "delete_pages" /\ inflight[2].op = "delete_pages"
    /\ inflight[1].old = <<1, 1>>
    /\ inflight[1].pages = <<[d |-> 1, v |-> 1, number |-> 1]>>
    /\ inflight[2].pages = <<[d |-> 1, v |-> 1, number |-> 3]>>
    /\ Len(docs[1].versions) = 3
    /\ PageTexts(docs[1].versions[3]) = <<"cat", "dog">>
    /\ PageTexts(docs[1].versions[2]) = <<"dog", "monkey">>

\* The version the request being served reads its pages from is the last
\* version its document has when the request arrives.
ReadsCurrentVersion == last'.old = LastVersion(Store, last'.old[1])

\* C24: when requests are served one at a time, every request that is
\* answered with success made its new version from the version that was the
\* document's current version when it arrived, whatever page ids it named.
C24_SerialEditsDeriveFromCurrent ==
    [][(Served /\ last'.status = "ok" /\ last'.pages # <<>>) =>
           ReadsCurrentVersion]_vars

\* The same property for single and bulk deletes alone: it holds.
SerialDeletesDeriveFromCurrent ==
    [][(Served /\ last'.status = "ok" /\ last'.pages # <<>>
           /\ last'.op \in {"delete_page", "delete_pages"}) =>
           ReadsCurrentVersion]_vars

\* The page rows of the version are numbered 1..page_count and its file has
\* page_count pages.
WellFormed(version) ==
    /\ DOMAIN version.pages = 1..version.page_count
    /\ version.has_file
    /\ Len(version.payload) = version.page_count

\* The versions the step creates, as <<document, index>>.
CreatedVersions ==
    UNION { { <<d, v>> :
                v \in {w \in DOMAIN docs'[d].versions :
                          d \in DOMAIN docs => w > Len(docs[d].versions)} } :
            d \in DOMAIN docs' }

\* C25: every version made by a request that is answered with success has
\* page rows numbered exactly 1..page_count and a file of exactly page_count
\* pages.
C25_ProducedVersionsWellFormed ==
    [][(Served /\ last'.status = "ok") =>
           \A vr \in CreatedVersions : WellFormed(Version(Store', vr))]_vars

\* The same property for requests that read the current version of their
\* document while every version is well formed: it holds.
WellFormedFromCurrentWellFormed ==
    [][(Served /\ last'.status = "ok" /\ ReadsCurrentVersion
           /\ \A d \in DOMAIN docs : \A v \in DOMAIN docs[d].versions :
                 WellFormed(docs[d].versions[v])) =>
           \A vr \in CreatedVersions : WellFormed(Version(Store', vr))]_vars

\* The file of the new version has the pages of the old file that the
\* request did not name, in their order.
PayloadIsSurvivors ==
    /\ NewVersion.has_file
    /\ NewVersion.payload =
          [i \in DOMAIN Survivors |-> OldVersion.payload[Survivors[i]]]

\* remove_pdf_pages was called last, on a version that has its file.
RemovedFromFile == last.op = "remove_pdf_pages" /\ OldVersion.has_file

\* C26: remove_pdf_pages, given some but not all pages of the old version
\* in any order, writes for the new version the pages of the old file whose
\* numbers it was not given, in their original order.
C26_RemoveKeepsSurvivorsAnyOrder ==
    RemovedFromFile => (Accepted /\ PayloadIsSurvivors)

\* The pages were given in ascending number.
GivenAscending ==
    \A i, j \in DOMAIN last.pages :
        i < j => last.pages[i].number < last.pages[j].number

\* The same property for pages given in ascending number: it holds.
RemoveAscendingKeepsSurvivors ==
    (RemovedFromFile /\ GivenAscending) => (Accepted /\ PayloadIsSurvivors)

\* C27: after an accepted delete, for every pair (new_number, old_number) of
\* the page map the artifact slot new_number of the new version holds what
\* the slot old_number of the old version holds, and the new version has no
\* artifact in any other slot.
C27_DeleteCopiesArtifactsByMap ==
    (IsDelete /\ Accepted) =>
        /\ \A i \in DOMAIN DeleteMap :
              ArtifactOf(NewVersion, DeleteMap[i][1]) =
                 ArtifactOf(OldVersion, DeleteMap[i][2])
        /\ DOMAIN NewVersion.artifacts \subseteq
              {DeleteMap[i][1] : i \in DOMAIN DeleteMap}

\* Page 1 of ["A1", "A2", "A3"] was deleted: the new version has the
\* artifacts of the old pages 2 and 3 in its slots 1 and 2.
C27_Witness ==
    /\ IsDelete /\ Accepted
    /\ OldVersion.artifacts = <<"A1", "A2", "A3">>
    /\ Numbers = {1}
    /\ DeleteMap = << <<1, 2>>, <<2, 3>> >>
    /\ ArtifactOf(NewVersion, 1) = <<"A2">>
    /\ ArtifactOf(NewVersion, 2) = <<"A3">>
    /\ DOMAIN NewVersion.artifacts = {1, 2}

\* The artifact slot n of the destination's new version holds nothing, or
\* it has a counterpart in the destination's old version, before or after
\* the inserted pages, and holds what that slot holds.
FromOldCounterpart(n) ==
    \/ ArtifactOf(DstNewVersion, n) = <<>>
    \/ /\ n \in 1..last.position
       /\ ArtifactOf(DstNewVersion, n) = ArtifactOf(DstOldVersion, n)
    \/ /\ n \in (last.position + Len(last.pages) + 1)..
                   (Len(DstOldVersion.pages) + Len(last.pages))
       /\ ArtifactOf(DstNewVersion, n) =
             ArtifactOf(DstOldVersion, n - Len(last.pages))

\* C28: after a move_to_document of k pages into another document at a
\* position P of 0..|B| that went through, the destination's new version
\* holds artifacts of the destination's old version only in the slots 1..P
\* (from old 1..P) and P+k+1..|B|+k (from old P+1..|B|); the slots
\* P+1..P+k of the inserted pages hold none.
C28_InsertedSlotsGetNoOldArtifact ==
    (MovedToOtherDocument /\ last.position \in 0..Len(DstOldVersion.pages)) =>
        \A n \in 1..(Len(DstOldVersion.pages) + Len(last.pages)) :
            FromOldCounterpart(n)

\* The reorder served last went through; its assignments are then a
\* permutation of the pages of the version it read.
Reordered == last.op = "reorder" /\ Accepted

\* Every page of the new version has the text of the page of the old
\* version that the assignments put there.
ReorderCarriesTexts ==
    /\ Len(NewVersion.pages) = Len(OldVersion.pages)
    /\ \A i \in DOMAIN last.data :
          NewVersion.pages[last.data[i].new_number].text =
             OldVersion.pages[last.data[i].old_number].text

\* C29 as written: a reorder that went through carries the page texts into
\* the new version and leaves every artifact slot of the new version empty.
C29_ReorderCopiesNoArtifact ==
    Reordered =>
        /\ ReorderCarriesTexts
        /\ \A n \in DOMAIN NewVersion.pages : ArtifactOf(NewVersion, n) = <<>>

\* C29 amended: a reorder that went through carries the page texts into the
\* new version and, for every assignment, copies the artifact of the old
\* version's slot old_number into the new version's slot new_number; no
\* other slot of the new version is written.
C29_ReorderCopiesTextsAndArtifacts ==
    Reordered =>
        /\ ReorderCarriesTexts
        /\ \A i \in DOMAIN last.data :
              ArtifactOf(NewVersion, last.data[i].new_number) =
                 ArtifactOf(OldVersion, last.data[i].old_number)
        /\ DOMAIN NewVersion.artifacts \subseteq
              {last.data[i].new_number : i \in DOMAIN last.data}

\* Pages ["A1", "A2", "A3"] reordered 1->2, 2->3, 3->1: the artifacts went
\* with the pages.
C29_Witness ==
    /\ Reordered
    /\ [i \in DOMAIN last.data |-> last.data[i].new_number] = <<2, 3, 1>>
    /\ OldVersion.artifacts = <<"A1", "A2", "A3">>
    /\ NewVersion.artifacts = <<"A3", "A1", "A2">>
    /\ PageTexts(NewVersion) = <<"monkey", "cat", "dog">>

\* C30: after a rotate that went through, every page the new version shares
\* with the version read has the text of that page, and no artifact slot of
\* the new version holds anything: no artifact made before the rotation
\* belongs to a page of the rotated version.
C30_RotateCopiesNoArtifact ==
    (last.op = "rotate" /\ Accepted) =>
        /\ \A n \in DOMAIN NewVersion.pages \cap DOMAIN OldVersion.pages :
              NewVersion.pages[n].text = OldVersion.pages[n].text
        /\ DOMAIN NewVersion.artifacts = {}

\* Page 1 of ["A1", "A2", "A3"] was turned by 90 degrees: the new version
\* has the texts and no artifact.
C30_Witness ==
    /\ last.op = "rotate" /\ Accepted
    /\ OldVersion.artifacts = <<"A1", "A2", "A3">>
    /\ NewVersion.payload[1] = [content |-> "A1", angle |-> 90]
    /\ PageTexts(NewVersion) = <<"cat", "dog", "monkey">>
    /\ NewVersion.artifacts = <<>>

\* The move_to_document requests received so far.
Moves == {i \in DOMAIN inflight : inflight[i].op = "move_to_document"}

\* Request i has bumped its destination document.
DestinationBumped(i) == inflight[i].dst_new # <<>>

\* The payload of the source's new version of request i is written.
SourceWritten(i) ==
    /\ inflight[i].new # <<>>
    /\ Version(Store, inflight[i].new).has_file

\* C31: move_to_document completes its sequence on the source before it
\* bumps the destination: in no reachable state does the destination have
\* the new version of a move while the payload of the source's new version
\* of that move is still unwritten.
C31_SourceWrittenBeforeDestinationBumped ==
    \A i \in Moves : DestinationBumped(i) => SourceWritten(i)

\* C31, what the code keeps: the payload of the destination's new version is
\* written only after the payload of the source's new version.
C31_SourceWrittenBeforeDestinationWritten ==
    \A i \in Moves :
       (DestinationBumped(i) /\ Version(Store, inflight[i].dst_new).has_file)
          => SourceWritten(i)

\* How far the handler of a request is.
Rank(pc) ==
    CASE pc \in {"started", "validated", "read"} -> 1
      [] pc \in {"bumped", "source_bumped"} -> 2
      [] pc \in {"saved", "destination_bumped"} -> 3
      [] pc = "source_written" -> 4
      [] pc = "done" -> 5

\* No statement group runs twice: a step of a request moves that request
\* forward (to a later statement group, or to the next pair of the page map
\* in the loop of reuse_ocr_data) and leaves the other requests alone, and
\* a received request is never dropped.
NoRetry ==
    /\ Len(inflight') >= Len(inflight)
    /\ \A i \in DOMAIN inflight :
          \/ inflight'[i] = inflight[i]
          \/ Rank(inflight'[i].pc) > Rank(inflight[i].pc)
          \/ /\ inflight'[i].pc = inflight[i].pc
             /\ inflight'[i].page_map = inflight[i].page_map
             /\ inflight[i].copied < Len(inflight[i].page_map)
             /\ inflight'[i].copied = inflight[i].copied + 1

\* C32: every operation terminates: a request received in any reachable
\* state gets its response, success or failure, after finitely many steps
\* of its handler, and no step of a handler is run again.
C32_EveryRequestTerminates ==
    /\ \A i \in 1..(MaxStarted + 1) :
          (Len(inflight) >= i)
             ~> (Len(inflight) >= i /\ inflight[i].pc = "done")
    /\ [][NoRetry]_vars

\* Two requests have been served, the first one a move between documents
\* that succeeded, the second one a request that failed.
C32_Witness ==
    /\ Len(inflight) >= 2
    /\ inflight[1].op = "move_to_document" /\ inflight[1].pc = "done"
    /\ inflight[1].status = "ok"
    /\ inflight[2].pc = "done" /\ inflight[2].status = "crash"

\* A GET /pages/{id}/ was answered.
Retrieved == inflight # <<>> /\ inflight[1].op = "retrieve"

\* The pages of the store that have id pk.
PagesWithPk(pk) == {r \in PageRefs(Store) : Pk(Store, r) = pk}

TextOf(r) == Version(Store, document_version(r)).pages[r.number].text

\* This step answers a GET /pages/{id}/ that names a page of the store.
IsRetrieve ==
    /\ Len(inflight') = Len(inflight) + 1
    /\ inflight'[Len(inflight')].op = "retrieve"
    /\ PagesWithPk(inflight'[Len(inflight')].pk) # {}

\* C33: retrieving a page as SVG returns the SVG when it is available,
\* otherwise the JPEG with content type image/jpeg, and 404 when neither is
\* available; retrieving as JPEG answers 404 when the image is unavailable;
\* retrieving as text returns exactly the page's text.  No case answers
\* with a server error.
C33_RetrieveFormats ==
    [][IsRetrieve =>
       LET req == inflight'[Len(inflight')]
           res == req.response
       IN  /\ res.status \in {200, 404}
           /\ (req.format = "svg" /\ req.svg_available) =>
                 (res = Response(get_svg(req.pk), "image/svg+xml"))
           /\ (req.format = "svg" /\ ~req.svg_available /\ req.jpeg_available) =>
                 (res = Response(get_jpeg(req.pk), "image/jpeg"))
           /\ (req.format = "svg" /\ ~req.svg_available /\ ~req.jpeg_available) =>
                 (res.status = 404)
           /\ (req.format \in {"jpeg", "jpg"} /\ ~req.jpeg_available) =>
                 (res.status = 404)
           /\ (req.format \in {"jpeg", "jpg"} /\ req.jpeg_available) =>
                 (res.status = 200 /\ res.data = get_jpeg(req.pk))
           /\ (req.format = "txt") =>
                 \A r \in PagesWithPk(req.pk) :
                    res.status = 200 /\ res.data = TextOf(r)]_vars

\* A page whose SVG is missing and whose JPEG is there was retrieved as SVG
\* and the JPEG came back; the page is one of a version made by a delete.
C33_Witness ==
    /\ Retrieved
    /\ inflight[1].format = "svg"
    /\ ~inflight[1].svg_available /\ inflight[1].jpeg_available
    /\ inflight[1].response.status = 200
    /\ inflight[1].response.content_type = "image/jpeg"
    /\ \E r \in PagesWithPk(inflight[1].pk) : r.v = 2

\* A call of dict2channel_data has returned.
Returned ==
    /\ inflight # <<>>
    /\ inflight[1].op = "dict2channel_data"
    /\ inflight[1].returned # <<>>

\* g is the last dot-separated segment of name: the characters after the
\* last dot of name, or all of name when it has no dot.
IsLastSegment(g, name) ==
    /\ Len(g) <= Len(name)
    /\ g = SubSeq(name, Len(name) - Len(g) + 1, Len(name))
    /\ \A i \in DOMAIN g : g[i] # "."
    /\ Len(g) < Len(name) => name[Len(name) - Len(g)] = "."

\* s without its characters c, by position.
Without(s, c) ==
    LET kept == {i \in DOMAIN s : s[i] # c}
        nth(k) == CHOOSE i \in kept : Cardinality({j \in kept : j < i}) = k - 1
    IN  [k \in 1..Cardinality(kept) |-> s[nth(k)]]

\* C34: for a task_dict with the keys 'type' and 'task_name',
\* dict2channel_data raises nothing and returns (group_name, channel_data)
\* where group_name is the last dot-separated segment of task_name,
\* channel_data['type'] is that segment without its underscores, a dot, and
\* the original type without its dashes, every other key of the input is
\* carried over with its value, and channel_data has no 'task_name' key.
C34_ChannelData ==
    (Returned /\ {"type", "task_name"} \subseteq DOMAIN inflight[1].argument) =>
       LET task_dict == inflight[1].argument
           group_name == inflight[1].returned[1].group_name
           channel_data == inflight[1].returned[1].channel_data
       IN  /\ inflight[1].returned[1].raised = ""
           /\ IsLastSegment(group_name, task_dict["task_name"])
           /\ "type" \in DOMAIN channel_data
           /\ channel_data["type"] =
                 Without(group_name, "_") \o <<".">>
                    \o Without(task_dict["type"], "-")
           /\ \A k \in DOMAIN task_dict \ {"type", "task_name"} :
                 k \in DOMAIN channel_data /\ channel_data[k] = task_dict[k]
           /\ DOMAIN channel_data = DOMAIN task_dict \ {"task_name"}

\* The call of the docstring has returned, for a task dict with other keys:
\* type 'ocrdocumenttask.taskreceived', group ocr_document_task.
C34_Witness ==
    /\ Returned
    /\ {"type", "task_name", "task_id"} \subseteq DOMAIN inflight[1].argument
    /\ inflight[1].argument["task_name"] = OcrDocumentTask
    /\ inflight[1].argument["type"] = TaskReceived
    /\ inflight[1].returned[1].raised = ""
    /\ inflight[1].returned[1].group_name = SubSeq(OcrDocumentTask, 23, 39)
    /\ inflight[1].returned[1].channel_data["type"] =
          <<"o", "c", "r", "d", "o", "c", "u", "m", "e", "n", "t", "t", "a",
            "s", "k", ".", "t", "a", "s", "k", "r", "e", "c", "e", "i", "v",
            "e", "d">>
    /\ inflight[1].returned[1].channel_data["task_id"] = <<"7", "-", "_">>

\* dict2channel_data takes 'type' and 'task_name' out of the dict it is
\* given: after a call that returned, task_dict has the other keys only,
\* and a call on a dict without 'type' raises KeyError.
ArgumentIsPopped ==
    Returned =>
       /\ inflight[1].returned[1].raised = "" =>
             inflight[1].task_dict =
                pop(pop(inflight[1].argument, "type"), "task_name")
       /\ "type" \notin DOMAIN inflight[1].argument =>
             /\ inflight[1].returned[1].raised = "KeyError"
             /\ inflight[1].returned[1].key = "type"
       /\ inflight[1].calls = 2 => inflight[1].returned[1].raised = "KeyError"

\* The last request was a move_to_document of pages of a document into
\* another document, both versions with a file of one page per page row.
MoveBetweenSoundDocuments ==
    /\ last.op = "move_to_document"
    /\ last.pages # <<>>
    /\ last.dst # last.old[1]
    /\ OldVersion.has_file /\ Len(OldVersion.payload) = Len(OldVersion.pages)
    /\ DstOldVersion.has_file
    /\ Len(DstOldVersion.payload) = Len(DstOldVersion.pages)

\* The destination's new file is the destination's old pages in their order
\* with the moved pages, in their order, as one block somewhere among them.
MovedAsOneBlock ==
    /\ DstNewVersion.has_file
    /\ \E p \in 0..Len(DstOldVersion.payload) :
          DstNewVersion.payload =
             SubSeq(DstOldVersion.payload, 1, p)
                \o MovedPayload
                \o SubSeq(DstOldVersion.payload, p + 1,
                          Len(DstOldVersion.payload))

\* C35: for every position the serializer accepts, the default -1 included,
\* move_to_document places the moved pages as one contiguous block in the
\* destination's payload, in their original relative order, and keeps the
\* destination's own pages in their original relative order.
C35_MovedPagesAreOneBlockAtEveryPosition ==
    MoveBetweenSoundDocuments => MovedAsOneBlock

\* C35 for the positions 0..|B| of the destination: it holds.
MovedPagesAreOneBlockAtPositionsOfDestination ==
    (MoveBetweenSoundDocuments
        /\ last.position \in 0..Len(DstOldVersion.pages)) => MovedAsOneBlock

\* The pages of the current version of every document of a store, as
\* <<document, page number>>.
CurrentPages(st) ==
    UNION { { <<d, i>> : i \in DOMAIN Version(st, LastVersion(st, d)).pages } :
            d \in DOMAIN st.docs }

CurrentText(st, p) == Version(st, LastVersion(st, p[1])).pages[p[2]].text

\* How many current pages of a store have text t.
TimesText(st, t) ==
    Cardinality({p \in CurrentPages(st) : CurrentText(st, p) = t})

\* The two stores have the same number of current pages and the same
\* multiset of their texts.
SamePagesAndTexts(before, after) ==
    /\ Cardinality(CurrentPages(before)) = Cardinality(CurrentPages(after))
    /\ \A t \in {CurrentText(before, p) : p \in CurrentPages(before)}
               \cup {CurrentText(after, p) : p \in CurrentPages(after)} :
          TimesText(before, t) = TimesText(after, t)

\* This step is a move_to_document that succeeded.
SuccessfulMove ==
    /\ nops' = nops + 1
    /\ last'.op = "move_to_document"
    /\ last'.status = "ok"

\* C36: move_to_document conserves pages: the number of pages over the
\* current versions of all documents, and the multiset of their texts, are
\* the same before and after every successful move, also when the
\* destination is the document that owns the moved pages.
C36_MoveConservesPagesAndTexts ==
    [][SuccessfulMove => SamePagesAndTexts(Store, Store')]_vars

\* The moved pages are pages of the current version of their document and
\* the destination is another document.
MoveOfCurrentPagesToOtherDocument ==
    /\ last'.dst # last'.old[1]
    /\ last'.old = LastVersion(Store, last'.old[1])

\* C36 for the number of pages, for a move of current pages into another
\* document: it holds.
MoveToOtherDocumentConservesPageCount ==
    [][(SuccessfulMove /\ MoveOfCurrentPagesToOtherDocument) =>
          Cardinality(CurrentPages(Store)) = Cardinality(CurrentPages(Store'))]_vars

\* C36 for a move of current pages to the front of another document whose
\* text rows are in step with its pages: it holds.
MoveToFrontConservesPagesAndTexts ==
    [][(SuccessfulMove /\ MoveOfCurrentPagesToOtherDocument
          /\ last'.position = 0) =>
          SamePagesAndTexts(Store, Store')]_vars

\* A successful move of current pages inside their document does not
\* conserve them: the document ends with the moved pages once more.
MoveInsideDocumentAddsPages ==
    [][(SuccessfulMove /\ last'.dst = last'.old[1]
          /\ last'.old = LastVersion(Store, last'.old[1])) =>
          Cardinality(CurrentPages(Store')) =
             Cardinality(CurrentPages(Store)) + Len(last'.pages)]_vars

\* The last request was a bulk delete that went through, on a version whose
\* file has one page per page row.
BulkDeleted ==
    /\ last.op = "delete_pages" /\ Accepted
    /\ OldVersion.has_file
    /\ Len(OldVersion.payload) = Len(OldVersion.pages)

\* Page n of the old version is neither in the new version's file nor among
\* its page texts.
RemovedFromNew(n) ==
    /\ \A i \in DOMAIN NewVersion.payload :
          NewVersion.payload[i].content # OldVersion.payload[n].content
    /\ \A i \in DOMAIN NewVersion.pages :
          NewVersion.pages[i].text # OldVersion.pages[n].text

\* The numbers of the pages the request named that are pages of the old
\* version.
NumbersOfOldVersion ==
    {last.pages[i].number : i \in {j \in DOMAIN last.pages :
                                     document_version(last.pages[j]) = last.old}}

\* C37: in a bulk delete, every page of the old version that is absent from
\* the new version's payload and texts was targeted by a page id of the
\* request that belongs to that old version: page ids of another version or
\* another document never remove a page of the bumped version.
C37_OnlyTargetedPagesRemoved ==
    BulkDeleted =>
       \A n \in DOMAIN OldVersion.pages :
          RemovedFromNew(n) => n \in NumbersOfOldVersion

\* C37 for requests whose page ids all belong to one version: it holds.
OnlyTargetedPagesRemovedOfOneVersion ==
    (BulkDeleted /\ OneVersion) =>
       \A n \in DOMAIN OldVersion.pages :
          RemovedFromNew(n) => n \in NumbersOfOldVersion

\* This step serves a request of a user.
IssuedBy(user) ==
    /\ nops' = nops + 1
    /\ inflight' # <<>>
    /\ inflight'[1].user = user

\* The version history of the documents of the other users is as before.
OthersUntouched(user) ==
    \A d \in DOMAIN docs :
       DocumentUser(Store, d) # user => docs'[d].versions = docs[d].versions

\* C38: an operation issued by user U creates new versions only on
\* documents owned by U: no delete, reorder, rotate, move_to_folder or
\* move_to_document request by U changes the version history of a document
\* owned by another user.
C38_OnlyOwnDocumentsChange ==
    [][\A user \in Users : IssuedBy(user) => OthersUntouched(user)]_vars

\* C38 for DELETE /pages/{id}/, whose queryset is filtered by user: it
\* holds.
SingleDeleteChangesOnlyOwnDocuments ==
    [][\A user \in Users :
          (IssuedBy(user) /\ last'.op = "delete_page") =>
             OthersUntouched(user)]_vars

\* C38 for the requests all of whose pages are the user's: it holds, the
\* destination being looked up among the user's folders and documents.
RequestOnOwnPagesChangesOnlyOwnDocuments ==
    [][\A user \in Users :
          (IssuedBy(user)
             /\ \A i \in DOMAIN last'.pages :
                   DocumentUser(Store, last'.pages[i].d) = user) =>
             OthersUntouched(user)]_vars

====
